---- MODULE Spec2Model ----
(***************************************************************************)
(* Interview orchestration engine of spool-backend (services/interview).   *)
(*                                                                         *)
(* Texts are sequences of tokens.  A token is one character, except that   *)
(* the literal "[INTEREST:" is a single token (the regular expressions of  *)
(* the source match it as a unit) and "]" closes a marker.                 *)
(***************************************************************************)
EXTENDS Integers, Sequences, FiniteSets, TLC

(***************************************************************************)
(* Bounds of the model.                                                    *)
(***************************************************************************)
MaxHist == 12
MaxCalls == 2
MaxPolicyMsgs == 17
MaxPolicyInterests == 3
MaxClock == 2
MaxObjs == 2
MaxTurns == 2
MaxEnds == 2
MaxTitleLen == 150
MaxEntries == 1
MaxAnalysed == 2
MaxTicks == 6
MaxPayloadMsgs == 3
TicksPerSecond == 2

(***************************************************************************)
(* Program constants.                                                      *)
(***************************************************************************)
MinTextLen == 2
GreetingTurns == 2
ExplorationTurns == 6
ExplorationInterests == 2
DeepDiveTurns == 12
WrapUpMessages == 15
ThreadInterests == 1
RecursionLimit == 25

None == "None"

\* None where a text is expected (a text never holds this token)
NoneText == <<"None">>

(***************************************************************************)
(* str.strip() and len()                                                   *)
(***************************************************************************)
IsSpace(c) == c = " "

RECURSIVE LStrip(_)
LStrip(s) == IF s # <<>> /\ IsSpace(Head(s)) THEN LStrip(Tail(s)) ELSE s

RECURSIVE RStrip(_)
RStrip(s) ==
  IF s # <<>> /\ IsSpace(s[Len(s)]) THEN RStrip(SubSeq(s, 1, Len(s) - 1)) ELSE s

Strip(s) == RStrip(LStrip(s))

(***************************************************************************)
(* The interest marker, r'\[INTEREST:\s*([^\]]+)\]' and                    *)
(* r'\[INTEREST:[^\]]+\]'.  Both match at a "[INTEREST:" token followed by *)
(* a non-empty run of tokens other than "]" and then a "]".                *)
(***************************************************************************)
Open == "[INTEREST:"
Close == "]"

\* the longest run of tokens other than "]" that starts at position i
RECURSIVE RunEnd(_, _)
RunEnd(text, i) ==
  IF i <= Len(text) /\ text[i] # Close THEN RunEnd(text, i + 1) ELSE i

\* a marker starts at position i: "[INTEREST:", one token or more, "]"
MarkerAt(text, i) ==
  /\ i <= Len(text)
  /\ text[i] = Open
  /\ RunEnd(text, i + 1) > i + 1
  /\ RunEnd(text, i + 1) <= Len(text)

\* group 1 of the match at i: \s* is greedy but gives characters back so that
\* [^\]]+ keeps at least one
Capture(text, i) ==
  LET run == SubSeq(text, i + 1, RunEnd(text, i + 1) - 1)
  IN  IF LStrip(run) # <<>> THEN LStrip(run) ELSE <<run[Len(run)]>>

\* re.findall(pattern, text): the captures of the non-overlapping matches,
\* scanning from the left
RECURSIVE FindAll(_, _)
FindAll(text, i) ==
  IF i > Len(text) THEN <<>>
  ELSE IF MarkerAt(text, i)
       THEN <<Capture(text, i)>> \o FindAll(text, RunEnd(text, i + 1) + 1)
       ELSE FindAll(text, i + 1)

\* re.sub(pattern, '', text)
RECURSIVE RemoveMarkers(_, _)
RemoveMarkers(text, i) ==
  IF i > Len(text) THEN <<>>
  ELSE IF MarkerAt(text, i)
       THEN RemoveMarkers(text, RunEnd(text, i + 1) + 1)
       ELSE <<text[i]>> \o RemoveMarkers(text, i + 1)

\* ' '.join(text.split()): runs of white space become one space, none at the ends
RECURSIVE JoinSplit(_)
JoinSplit(s) ==
  LET t == LStrip(s)
  IN  IF t = <<>> THEN <<>>
      ELSE LET rest == JoinSplit(Tail(t))
           IN  IF Len(t) > 1 /\ IsSpace(t[2])
               THEN IF rest = <<>> THEN <<Head(t)>> ELSE <<Head(t), " ">> \o rest
               ELSE <<Head(t)>> \o rest

SelectNonEmpty(xs) == SelectSeq(xs, LAMBDA x : x # <<>>)

StripAll(xs) == [k \in 1..Len(xs) |-> Strip(xs[k])]

\* InterviewGraph._extract_interest_tags
_extract_interest_tags(text) == SelectNonEmpty(StripAll(FindAll(text, 1)))

\* InterviewHandler._clean_response_for_tts
_clean_response_for_tts(text) ==
  IF text = NoneText \/ text = <<>> THEN <<>>
  ELSE Strip(JoinSplit(RemoveMarkers(text, 1)))

(***************************************************************************)
(* Messages and the inputs the model draws.                                *)
(***************************************************************************)
HumanMessage(c) == [type |-> "human", content |-> c]
AIMessage(c) == [type |-> "ai", content |-> c]
SystemMessage(c) == [type |-> "system", content |-> c]

system_prompt == SystemMessage(<<"s", "y", "s">>)

\* replies of the text-generation capability to generate_response
PlainReply == <<"o", "k">>
OneMarkerReply == <<"o", Open, " ", "c", Close>>
ManyMarkersReply == <<Open, "a", Close, Open, "b", Close, " ", Open, " ", "a", " ", Close>>
Responses == {PlainReply, OneMarkerReply, ManyMarkersReply}

\* replies to _extract_concepts, already split at the commas
ConceptReplies == {<<>>, << <<" ", "m">>, <<" ">> >>}

\* replies to the analysis and summary prompts
AnalysisReply == <<"n">>
SummaryReply == <<"t">>

\* transcriptions the speech-to-text capability returns
LongText == <<"h", "i">>
PaddedText == <<" ", "h", " ">>
UserTexts == {<<>>, PaddedText, LongText}

Modes == {None, "thread"}

Stages == <<"greeting", "exploration", "deep_dive", "wrap_up">>

\* position of a stage in the order of the interview; graph END is the last
StageRank(stage) ==
  CASE stage = "greeting" -> 1
    [] stage = "exploration" -> 2
    [] stage = "deep_dive" -> 3
    [] stage = "wrap_up" -> 4
    [] OTHER -> 5

(***************************************************************************)
(* InterviewState and the nodes of InterviewGraph.                         *)
(***************************************************************************)
InitialState(conversation_history, user_message, mode) ==
  [ messages |-> Append(conversation_history, HumanMessage(user_message)),
    interests |-> <<>>,
    interview_stage |-> "greeting",
    last_analysis |-> NoneText,
    thread_summary |-> NoneText,
    extracted_concepts |-> <<>>,
    should_create_thread |-> FALSE,
    mode |-> mode ]

IsChat(m) == m.type \in {"human", "ai"}

LastIndexOf(messages, type) ==
  LET hits == {k \in 1..Len(messages) : messages[k].type = type}
  IN  IF hits = {} THEN 0 ELSE CHOOSE k \in hits : \A j \in hits : j <= k

\* analyze_input awaits the model only for a trailing user message
AnalyzeCallsLlm(state) ==
  state.messages # <<>> /\ state.messages[Len(state.messages)].type = "human"

analyze_input(state, reply) ==
  IF state.messages = <<>>
  THEN [state EXCEPT !.messages = <<system_prompt>>, !.interview_stage = "greeting"]
  ELSE IF AnalyzeCallsLlm(state)
       THEN [state EXCEPT !.last_analysis = reply]
       ELSE state

\* for interest in interests: append unless a record of that name exists
RECURSIVE AddInterests(_, _)
AddInterests(known, names) ==
  IF names = <<>> THEN known
  ELSE AddInterests(
         IF \E k \in 1..Len(known) : known[k] = Head(names)
         THEN known ELSE Append(known, Head(names)),
         Tail(names))

ExtractCallsLlm(state) ==
  Len(state.messages) > 2 /\ LastIndexOf(state.messages, "human") # 0

_extract_concepts(reply) == SelectNonEmpty(StripAll(reply))

extract_interests(state, reply) ==
  LET ai == LastIndexOf(state.messages, "ai")
      found == IF Len(state.messages) > 1 /\ ai # 0
               THEN AddInterests(state.interests,
                                 _extract_interest_tags(state.messages[ai].content))
               ELSE state.interests
      concepts == IF ExtractCallsLlm(state)
                  THEN state.extracted_concepts \o _extract_concepts(reply)
                  ELSE state.extracted_concepts
  IN  [state EXCEPT !.interests = found, !.extracted_concepts = concepts]

MessageCount(state) == Len(SelectSeq(state.messages, IsChat))

\* the greeting threshold compared with >= instead of >
NextStage_AtThreshold(current_stage, message_count, interests_count) ==
  IF current_stage = "greeting" /\ message_count >= GreetingTurns
  THEN "exploration"
  ELSE IF /\ current_stage = "exploration"
          /\ interests_count >= ExplorationInterests
          /\ message_count > ExplorationTurns
       THEN "deep_dive"
       ELSE IF current_stage = "deep_dive" /\ message_count > DeepDiveTurns
            THEN "wrap_up"
            ELSE current_stage

NextStage(current_stage, message_count, interests_count) ==
  IF current_stage = "greeting" /\ message_count > GreetingTurns
  THEN "exploration"
  ELSE IF /\ current_stage = "exploration"
          /\ interests_count >= ExplorationInterests
          /\ message_count > ExplorationTurns
       THEN "deep_dive"
       ELSE IF current_stage = "deep_dive" /\ message_count > DeepDiveTurns
            THEN "wrap_up"
            ELSE current_stage

\* the thread test without the comparison of the mode
ShouldCreateThread_AnyMode(state) ==
  \/ state.should_create_thread
  \/ Len(state.interests) >= ThreadInterests

ShouldCreateThread(state) ==
  \/ state.should_create_thread
  \/ state.mode = "thread" /\ Len(state.interests) >= ThreadInterests

determine_next_stage(state) ==
  [state EXCEPT
     !.interview_stage =
        NextStage(state.interview_stage, MessageCount(state), Len(state.interests)),
     !.should_create_thread = ShouldCreateThread(state)]

\* what generate_response submits: state["messages"][1:]
LlmInput(state) == Tail(state.messages)

generate_response(state, reply) ==
  [state EXCEPT !.messages = Append(state.messages, AIMessage(reply))]

_should_continue(state) ==
  IF state.interview_stage = "wrap_up" /\ Len(state.messages) > WrapUpMessages
  THEN IF state.should_create_thread THEN "prepare_thread" ELSE "end"
  ELSE "continue"

\* the conditional edges out of generate_response
Route(state) ==
  CASE _should_continue(state) = "continue" -> "analyze_input"
    [] _should_continue(state) = "prepare_thread" -> "prepare_thread_data"
    [] OTHER -> "END"

prepare_thread_data(state, reply) ==
  IF state.should_create_thread
  THEN [state EXCEPT !.thread_summary = reply]
  ELSE state

\* what process_message returns from the final state
Result(final_state) ==
  LET ai == LastIndexOf(final_state.messages, "ai")
  IN  [ response |-> IF ai = 0 THEN NoneText ELSE final_state.messages[ai].content,
        interests |-> final_state.interests,
        stage |-> final_state.interview_stage,
        should_create_thread |-> final_state.should_create_thread,
        thread_summary |-> final_state.thread_summary,
        concepts |-> final_state.extracted_concepts ]


(***************************************************************************)
(* State.                                                                  *)
(*   p*  one evaluation of determine_next_stage: the state drawn, the      *)
(*       state the node returns                                            *)
(*   g*  InterviewGraph.process_message on drawn arguments, one super-step *)
(*       of the compiled graph at a time                                   *)
(*   the service: variant says which application runs, "graph" for main.py *)
(*       with voice_agent.py and "rest" for main_rest.py with              *)
(*       voice_agent_rest.py; clients are the module-level clients; objs   *)
(*       are the InterviewSession objects ever built, each with the state  *)
(*       of the handler built for it; active_sessions maps a session id to *)
(*       its object (0: no entry); turns are the calls of                  *)
(*       InterviewHandler.process, each at its suspension point            *)
(*   the hand-off: ends are the calls of end_interview, each at its        *)
(*       suspension point; answer is what the last endpoint called         *)
(*       returned, or that it is suspended; requests are the payloads      *)
(*       submitted to the analytics sink and to thread creation, in order  *)
(*   t*  one evaluation of generate_thread_title: the messages drawn, the  *)
(*       title returned                                                    *)
(***************************************************************************)
VARIABLES pIn, pState, pDone,
          gHist, gMode, gConcept, gState, gNode, gSteps, gGen, gCalls, gResult,
          variant, clients, now, nObjs, objs, active_sessions, active_streams,
          nTurns, turns,
          ends, answer, requests, tMessages, tTitle,
          tAnalysis, cEnv, cClock, cIssued, cVerdict

policyVars == <<pIn, pState, pDone>>
graphVars == <<gHist, gMode, gConcept, gState, gNode, gSteps, gGen, gCalls, gResult>>
serviceVars == <<variant, clients, now, nObjs, objs, active_sessions, active_streams,
                 nTurns, turns>>
handoffVars == <<ends, answer, requests, tMessages, tTitle>>
toolVars == <<tAnalysis, cEnv, cClock, cIssued, cVerdict>>
vars == <<policyVars, graphVars, serviceVars, handoffVars, toolVars>>

NoResult == [status |-> "none"]

PolicyIdle ==
  /\ pIn = InitialState(<<>>, LongText, None)
  /\ pState = pIn
  /\ pDone = TRUE

GraphIdle ==
  /\ gHist = <<>>
  /\ gMode = None
  /\ gConcept = <<>>
  /\ gState = InitialState(<<>>, LongText, None)
  /\ gNode = "idle"
  /\ gSteps = 0
  /\ gGen = 0
  /\ gCalls = MaxCalls
  /\ gResult = NoResult

Sids == 1..MaxClock
ObjIds == 1..MaxObjs
TurnIds == 1..MaxTurns

\* an InterviewSession with the handler create_interview_stream builds for it;
\* start is what the start_interview call that built it answered
NoSession ==
  [ session_id |-> 0,
    start |-> "none",
    transcript |-> <<>>,
    interests |-> <<>>,
    mode |-> None,
    concepts |-> <<>>,
    prepare_thread |-> FALSE,
    thread_summary |-> NoneText,
    thread_id |-> None,
    thread_created |-> FALSE,
    thread_creation_error |-> None,
    ended |-> FALSE,
    handler |-> FALSE,
    conversation_history |-> <<>> ]

\* a call of InterviewHandler.process: its position, its local variables, the
\* capability whose call raised, and how many requests and model calls it made
NoTurn ==
  [ obj |-> 0,
    pc |-> "none",
    user_text |-> NoneText,
    history |-> <<>>,
    response |-> NoneText,
    interests |-> <<>>,
    out |-> "none",
    raised |-> None,
    posts |-> 0,
    llm_calls |-> 0 ]

ServiceIdle ==
  /\ variant = "graph"
  /\ clients = [langflow_client |-> FALSE, voice_agent |-> FALSE]
  /\ now = 1
  /\ nObjs = 0
  /\ objs = [o \in ObjIds |-> NoSession]
  /\ active_sessions = [sid \in Sids |-> 0]
  /\ active_streams = {}
  /\ nTurns = 0
  /\ turns = [t \in TurnIds |-> NoTurn]


EndIds == 1..MaxEnds

\* a call of end_interview: the id it was called with, the session object it
\* holds, its position, what the collaborators answered, what it returned
NoEnd ==
  [ sid |-> 0, obj |-> 0, pc |-> "none", analytics |-> "none", thread |-> "none",
    out |-> "none" ]

NoAnswer == [op |-> "none"]

\* the answer of an endpoint that does not find the id in the registry
NotFound(op, sid) == [op |-> op, sid |-> sid, status |-> "not_found"]

\* no analysis made, no credential generator built, nothing issued or checked
NoAnalysis == [subjects |-> <<>>, topics |-> <<>>, concepts |-> <<>>, done |-> FALSE]
NoEnv == [TURN_STATIC_AUTH_SECRET |-> None, TURN_SECRET |-> None, generator |-> None,
          warned |-> FALSE]
NoIssue == [path |-> "none"]
NoVerdict == [asked |-> FALSE]

DefaultSecret == "spool-turn-secret-key-change-in-production"

\* os.getenv(name, default)
Getenv(value, default) == IF value = None THEN default ELSE value

\* TurnCredentialGenerator(): the secret it holds, and whether it warned
GeneratorSecret(env) == Getenv(env.TURN_STATIC_AUTH_SECRET, DefaultSecret)

\* get_turn_credentials builds the module's generator on its first call
Constructed_(env) ==
  IF env.generator # None THEN env
  ELSE [env EXCEPT !.generator = GeneratorSecret(env),
                   !.warned = (GeneratorSecret(env) = DefaultSecret)]

ToolQuiet ==
  /\ tAnalysis = NoAnalysis
  /\ cClock = 0
  /\ cIssued = NoIssue
  /\ cVerdict = NoVerdict

ToolIdle ==
  /\ ToolQuiet
  /\ cEnv = NoEnv

\* the tools once a stream has been built by voice_agent.py's
\* create_interview_stream, which asks get_turn_credentials for credentials
ToolStarted ==
  /\ ToolQuiet
  /\ cEnv = Constructed_(NoEnv)

HandoffIdle ==
  /\ ends = [e \in EndIds |-> NoEnd]
  /\ answer = NoAnswer
  /\ requests = <<>>
  /\ tMessages = <<>>
  /\ tTitle = NoneText

(***************************************************************************)
(* What the handler and the service do to a session with a result.         *)
(***************************************************************************)
\* conversation_history after InterviewHandler.process has appended the turn
HistoryAfter(history, user_text, result) ==
  IF result.response # NoneText /\ result.response # <<>>
  THEN history \o <<HumanMessage(user_text), AIMessage(result.response)>>
  ELSE Append(history, HumanMessage(user_text))

InterviewSession(session_id, mode) ==
  [NoSession EXCEPT !.session_id = session_id, !.mode = mode, !.start = "started"]

\* a transcript entry; turn is the call of process that produced it
Entry(speaker, text, t) == [speaker |-> speaker, text |-> text, turn |-> t]

\* handle_interest_detected that appends without looking at the names
handle_interest_detected_NoCheck(session, interest) ==
  [session EXCEPT !.interests = Append(@, interest)]

handle_interest_detected(session, interest) ==
  IF \E k \in 1..Len(session.interests) : session.interests[k] = interest
  THEN session
  ELSE [session EXCEPT !.interests = Append(@, interest)]

RECURSIVE NotifyAll(_, _)
NotifyAll(session, names) ==
  IF names = <<>> THEN session
  ELSE NotifyAll(handle_interest_detected(session, Head(names)), Tail(names))

\* the graph handler after process_message has returned: history, interests,
\* concepts, thread flag and the assistant entry
Commit(session, t, user_text, result) ==
  [NotifyAll(session, result.interests) EXCEPT
     !.conversation_history = HistoryAfter(@, user_text, result),
     !.concepts = @ \o result.concepts,
     !.prepare_thread = @ \/ result.should_create_thread,
     !.thread_summary = IF /\ result.should_create_thread
                           /\ result.thread_summary # NoneText
                           /\ result.thread_summary # <<>>
                        THEN result.thread_summary ELSE @,
     !.transcript = Append(@, Entry("assistant", _clean_response_for_tts(result.response), t))]

\* the text the REST handler puts in the request: left out when it is empty
PostedText(text) == IF text = <<>> \/ text = NoneText THEN NoneText ELSE text

\* POST /api/interview/{session_id}/transcript as the handlers call it:
\* main.py appends the entry it is handed, main_rest.py builds the entry
\* or records the interest
\* an endpoint that appends without looking the session up in the registry
update_transcript_Unchecked(sessions, session_id, kind, entry) ==
  [sessions EXCEPT ![IF active_sessions[session_id] = 0 THEN 1
                     ELSE active_sessions[session_id]].transcript = Append(@, entry)]

update_transcript(sessions, session_id, kind, entry) ==
  IF active_sessions[session_id] = 0 THEN sessions
  ELSE LET o == active_sessions[session_id]
       IN  IF kind = "interest_detected"
           THEN [sessions EXCEPT ![o] = handle_interest_detected(@, entry.text)]
           ELSE [sessions EXCEPT ![o].transcript =
                   Append(@, IF variant = "graph" THEN entry
                             ELSE [entry EXCEPT !.text = PostedText(entry.text)])]

\* _update_transcript swallows every failure of the request
PostOutcomes == {"delivered", "lost"}

\* the request reaches update_transcript and passes its membership test: the
\* endpoint then awaits the body, and other handlers run before it goes on.
\* A request that is lost, or one for an id that is not registered (answered
\* with not-found at once), changes nothing.
Enters(outcome, session_id) ==
  outcome = "delivered" /\ active_sessions[session_id] # 0

(***************************************************************************)
(* determine_next_stage on drawn states.                                   *)
(***************************************************************************)
\* n chat messages, user and assistant in turn, behind an optional system message
ChatMessages(n, reply) ==
  [k \in 1..n |-> IF k % 2 = 1 THEN HumanMessage(LongText) ELSE AIMessage(reply)]

InterestNames == << <<"a">>, <<"b">>, <<"c">>, <<"d">> >>

PolicyInit ==
  /\ \E n \in 0..MaxPolicyMsgs, k \in 0..MaxPolicyInterests, sys \in BOOLEAN,
        stage \in {Stages[i] : i \in 1..Len(Stages)}, mode \in Modes :
       pIn = [InitialState(<<>>, LongText, mode) EXCEPT
                   !.messages = (IF sys THEN <<system_prompt>> ELSE <<>>)
                                  \o ChatMessages(n, PlainReply),
                   !.interests = SubSeq(InterestNames, 1, k),
                   !.interview_stage = stage]
  /\ pState = pIn
  /\ pDone = FALSE
  /\ ToolIdle
  /\ GraphIdle
  /\ ServiceIdle
  /\ HandoffIdle

PolicyStep ==
  /\ ~pDone
  /\ pState' = determine_next_stage(pState)
  /\ pDone' = TRUE
  /\ UNCHANGED <<pIn, graphVars, serviceVars, handoffVars, toolVars>>

PolicyNext == PolicyStep

SpecPolicy == PolicyInit /\ [][PolicyNext]_vars


(***************************************************************************)
(* InterviewGraph.process_message, one super-step of the compiled graph at *)
(* a time.  The arguments are drawn: conversation_history is a list of n   *)
(* chat messages, the user message is LongText, the mode is None or        *)
(* "thread".  A second call is made the way the caller of process_message  *)
(* makes it: with the history grown by the user message and the response   *)
(* when the first call returned, with the same history when it raised.     *)
(* The graph is compiled without a recursion limit of its own, so ainvoke  *)
(* runs it under the framework's default of RecursionLimit super-steps and *)
(* raises GraphRecursionError after them.                                  *)
(***************************************************************************)
\* the conversation histories the calls are drawn from: n messages, n even
HistLens == {n \in 0..MaxHist : n % 2 = 0}

\* the clients the startup handler assigns, all of them constructed, as
\* main_rest.py's startup leaves them
Wired == [langflow_client |-> TRUE, voice_agent |-> TRUE]

\* main.py's startup_event names LangflowClient without importing it, so the
\* assignment of voice_agent is never reached and both stay None
Unwired == [langflow_client |-> FALSE, voice_agent |-> FALSE]

GraphInit ==
  /\ \E n \in HistLens, reply \in Responses : gHist = ChatMessages(n, reply)
  /\ gMode \in Modes
  /\ gConcept \in ConceptReplies
  /\ gState = InitialState(<<>>, LongText, None)
  /\ gNode = "idle"
  /\ gSteps = 0
  /\ gGen = 0
  /\ gCalls = 0
  /\ gResult = NoResult
  /\ PolicyIdle
  /\ ServiceIdle
  /\ ToolIdle
  /\ HandoffIdle

\* the conversation_history of the next call: what the caller has made of the
\* history after the call before, which returned or raised
NextHistory ==
  IF gResult.status = "returned" THEN HistoryAfter(gHist, LongText, gResult.result)
  ELSE gHist

\* process_message is called: it builds the initial state and starts the
\* graph at its entry point
GraphStart ==
  /\ gNode = "idle"
  /\ gCalls < MaxCalls
  /\ gCalls' = gCalls + 1
  /\ gHist' = NextHistory
  /\ gState' = InitialState(NextHistory, LongText, gMode)
  /\ gNode' = "analyze_input"
  /\ gSteps' = 0
  /\ gGen' = 0
  /\ gResult' = NoResult
  /\ UNCHANGED <<gMode, gConcept, policyVars, toolVars, handoffVars, serviceVars>>

Running(node) ==
  /\ gNode = node
  /\ gSteps < RecursionLimit

GraphAnalyzeInput ==
  /\ Running("analyze_input")
  /\ gState' = analyze_input(gState, AnalysisReply)
  /\ gNode' = "extract_interests"
  /\ gSteps' = gSteps + 1
  /\ UNCHANGED <<gHist, gMode, gConcept, gGen, gCalls, gResult, policyVars, toolVars, handoffVars, serviceVars>>

GraphExtractInterests ==
  /\ Running("extract_interests")
  /\ gState' = extract_interests(gState, gConcept)
  /\ gNode' = "determine_next_stage"
  /\ gSteps' = gSteps + 1
  /\ UNCHANGED <<gHist, gMode, gConcept, gGen, gCalls, gResult, policyVars, toolVars, handoffVars, serviceVars>>

GraphDetermineNextStage ==
  /\ Running("determine_next_stage")
  /\ gState' = determine_next_stage(gState)
  /\ gNode' = "generate_response"
  /\ gSteps' = gSteps + 1
  /\ UNCHANGED <<gHist, gMode, gConcept, gGen, gCalls, gResult, policyVars, toolVars, handoffVars, serviceVars>>

GraphGenerateResponse ==
  /\ Running("generate_response")
  /\ \E reply \in Responses :
       /\ gState' = generate_response(gState, reply)
       /\ gNode' = Route(generate_response(gState, reply))
  /\ gSteps' = gSteps + 1
  /\ gGen' = gGen + 1
  /\ UNCHANGED <<gHist, gMode, gConcept, gCalls, gResult, policyVars, toolVars, handoffVars, serviceVars>>

GraphPrepareThreadData ==
  /\ Running("prepare_thread_data")
  /\ gState' = prepare_thread_data(gState, SummaryReply)
  /\ gNode' = "END"
  /\ gSteps' = gSteps + 1
  /\ UNCHANGED <<gHist, gMode, gConcept, gGen, gCalls, gResult, policyVars, toolVars, handoffVars, serviceVars>>

\* the node about to run awaits the text-generation capability
NodeCallsLlm ==
  \/ gNode = "analyze_input" /\ AnalyzeCallsLlm(gState)
  \/ gNode = "extract_interests" /\ ExtractCallsLlm(gState)
  \/ gNode = "generate_response"
  \/ gNode = "prepare_thread_data" /\ gState.should_create_thread

\* the capability raises and ainvoke propagates it
GraphLlmRaises ==
  /\ gSteps < RecursionLimit
  /\ NodeCallsLlm
  /\ gNode' = "raised"
  /\ UNCHANGED <<gHist, gMode, gConcept, gState, gSteps, gGen, gCalls, gResult, policyVars, toolVars, handoffVars, serviceVars>>

\* the step budget is spent and the graph has not reached END
GraphRecursionError ==
  /\ gNode \in {"analyze_input", "extract_interests", "determine_next_stage",
                "generate_response", "prepare_thread_data"}
  /\ gSteps >= RecursionLimit
  /\ gNode' = "raised"
  /\ UNCHANGED <<gHist, gMode, gConcept, gState, gSteps, gGen, gCalls, gResult, policyVars, toolVars, handoffVars, serviceVars>>

\* the graph has reached END and process_message returns the result it makes
\* of the final state
GraphReturn ==
  /\ gNode = "END"
  /\ gResult' = [status |-> "returned", result |-> Result(gState)]
  /\ gNode' = "idle"
  /\ UNCHANGED <<gHist, gMode, gConcept, gState, gSteps, gGen, gCalls, policyVars, toolVars, handoffVars, serviceVars>>

\* process_message raises what ainvoke raised
GraphRaise ==
  /\ gNode = "raised"
  /\ gResult' = [status |-> "raised"]
  /\ gNode' = "idle"
  /\ UNCHANGED <<gHist, gMode, gConcept, gState, gSteps, gGen, gCalls, policyVars, toolVars, handoffVars, serviceVars>>

GraphNext ==
  \/ GraphStart
  \/ GraphAnalyzeInput
  \/ GraphExtractInterests
  \/ GraphDetermineNextStage
  \/ GraphGenerateResponse
  \/ GraphPrepareThreadData
  \/ GraphLlmRaises
  \/ GraphRecursionError
  \/ GraphReturn
  \/ GraphRaise

SpecGraph == GraphInit /\ [][GraphNext]_vars


(***************************************************************************)
(* process_message as one call: every result the graph can return for the  *)
(* arguments, over the replies of the text-generation capability.          *)
(***************************************************************************)
RECURSIVE GraphRuns(_, _, _, _)
GraphRuns(state, node, steps, concept) ==
  IF node = "END" THEN {Result(state)}
  ELSE IF steps >= RecursionLimit THEN {}
  ELSE CASE node = "analyze_input" ->
              GraphRuns(analyze_input(state, AnalysisReply),
                        "extract_interests", steps + 1, concept)
         [] node = "extract_interests" ->
              GraphRuns(extract_interests(state, concept),
                        "determine_next_stage", steps + 1, concept)
         [] node = "determine_next_stage" ->
              GraphRuns(determine_next_stage(state),
                        "generate_response", steps + 1, concept)
         [] node = "generate_response" ->
              UNION {GraphRuns(generate_response(state, reply),
                               Route(generate_response(state, reply)),
                               steps + 1, concept) : reply \in Responses}
         [] OTHER ->
              GraphRuns(prepare_thread_data(state, SummaryReply),
                        "END", steps + 1, concept)

Raised == [status |-> "raised"]
Returned(result) == [status |-> "returned", result |-> result]

\* the first node awaits the model for the user message, so a call can always raise
ProcessMessageOutcomes(conversation_history, user_message, mode) ==
  {Raised} \cup
  {Returned(r) : r \in UNION {GraphRuns(InitialState(conversation_history, user_message, mode),
                                        "analyze_input", 0, concept) :
                                concept \in ConceptReplies}}

\* the outcomes for an empty history, computed once
FreshOutcomes == [mode \in Modes |-> ProcessMessageOutcomes(<<>>, LongText, mode)]

process_message(conversation_history, user_message, mode) ==
  IF conversation_history = <<>> /\ user_message = LongText
  THEN FreshOutcomes[mode]
  ELSE ProcessMessageOutcomes(conversation_history, user_message, mode)

(***************************************************************************)
(* The service: session registry, streams and the audio handler.           *)
(***************************************************************************)
\* the two applications after their startup_event: main.py has no client and
\* builds no stream and no handler, main_rest.py has both clients
ServiceInit ==
  /\ variant \in {"graph", "rest"}
  /\ clients = (IF variant = "graph" THEN Unwired ELSE Wired)
  /\ now = 1
  /\ nObjs = 0
  /\ objs = [o \in ObjIds |-> NoSession]
  /\ active_sessions = [sid \in Sids |-> 0]
  /\ active_streams = {}
  /\ nTurns = 0
  /\ turns = [t \in TurnIds |-> NoTurn]
  /\ PolicyIdle
  /\ ToolIdle
  /\ GraphIdle
  /\ HandoffIdle

\* InterviewHandler.__init__ : the graph handler starts with no history, the
\* REST handler with the system prompt
InterviewHandler(session) ==
  [session EXCEPT
     !.handler = TRUE,
     !.conversation_history = IF variant = "graph" THEN <<>> ELSE <<system_prompt>>]

\* what building and mounting the stream can do
StreamOutcomes ==
  IF clients.voice_agent THEN {"mounted", "create_raises", "mount_raises"} ELSE {"skipped"}

\* POST /api/interview/start; the session id is made of the user and the clock.
\* An exception of create_interview_stream or of mount is answered with an
\* internal error; the registry entries made before it are left as they are.
\* voice_agent.py's create_interview_stream asks get_turn_credentials for
\* credentials, which builds the generator on its first call.
start_interview ==
  /\ nObjs < MaxObjs
  /\ \E ts \in now..MaxClock,
        mode \in (IF variant = "graph" THEN Modes ELSE {None}),
        stream \in StreamOutcomes :
       /\ now' = ts
       /\ nObjs' = nObjs + 1
       /\ objs' = [objs EXCEPT ![nObjs + 1] =
                     CASE stream = "mounted" ->
                            InterviewHandler(InterviewSession(ts, mode))
                       [] stream = "skipped" -> InterviewSession(ts, mode)
                       [] OTHER -> [InterviewSession(ts, mode) EXCEPT !.start = "failed"]]
       /\ active_sessions' = [active_sessions EXCEPT ![ts] = nObjs + 1]
       /\ active_streams' = IF stream \in {"mounted", "mount_raises"}
                            THEN active_streams \cup {ts}
                            ELSE active_streams
  /\ cEnv' = IF variant = "graph" /\ clients.voice_agent THEN Constructed_(cEnv) ELSE cEnv
  /\ UNCHANGED <<variant, clients, nTurns, turns, policyVars, tAnalysis, cClock, cIssued,
                 cVerdict, handoffVars, graphVars>>

\* process returns: out is the segment handed back
Finish(t, out, raised) ==
  [turns EXCEPT ![t] = [@ EXCEPT !.pc = "done", !.out = out, !.raised = raised,
                                 !.history = <<>>, !.interests = <<>>,
                                 !.response = NoneText]]

\* the 'not user_text or len(user_text.strip()) < 2' test of the graph handler
TooShort(user_text) ==
  user_text = NoneText \/ user_text = <<>> \/ Len(Strip(user_text)) < MinTextLen

\* what speech-to-text hands to process; the REST handler treats every text
\* alike, so it is given one empty and one non-empty text
SttTexts == IF variant = "graph" THEN UserTexts ELSE {<<>>, LongText}

\* the replies of the REST handler's chat model
ChatReplies == {PlainReply, ManyMarkersReply}

\* process, up to its first await: speech-to-text, the user entry, the request
TurnBegin(o) ==
  /\ objs[o].handler
  /\ nTurns < MaxTurns
  /\ nTurns' = nTurns + 1
  /\ LET t == nTurns + 1
         fresh == [NoTurn EXCEPT !.obj = o, !.pc = "start", !.out = "pending"]
     IN  \/ /\ turns' = [turns EXCEPT ![t] = [fresh EXCEPT !.pc = "done", !.out = "silence",
                                                          !.raised = "stt"]]
            /\ objs' = objs
         \/ \E user_text \in SttTexts :
              IF variant = "graph"
              THEN IF TooShort(user_text)
                   THEN /\ turns' = [turns EXCEPT ![t] =
                                       [fresh EXCEPT !.pc = "done", !.out = "empty",
                                                     !.user_text = user_text]]
                        /\ objs' = objs
                   ELSE /\ turns' = [turns EXCEPT ![t] =
                                       [fresh EXCEPT !.pc = "post_user", !.posts = 1,
                                                     !.user_text = user_text]]
                        /\ objs' = [objs EXCEPT ![o].transcript =
                                      Append(@, Entry("user", user_text, t))]
              ELSE /\ turns' = [turns EXCEPT ![t] =
                                  [fresh EXCEPT !.pc = "post_user", !.posts = 1,
                                                !.user_text = user_text]]
                   /\ objs' = objs
  /\ UNCHANGED <<variant, clients, now, nObjs, active_sessions, active_streams,
                 policyVars, toolVars, handoffVars, graphVars>>

\* the request with the user entry enters update_transcript, or is lost; the
\* handler is waiting for the response
TurnPostUser(t) ==
  /\ turns[t].pc = "post_user"
  /\ \E outcome \in PostOutcomes :
       turns' = [turns EXCEPT ![t].pc =
                   IF Enters(outcome, objs[turns[t].obj].session_id)
                   THEN "user_suspended" ELSE "user_posted"]
  /\ UNCHANGED <<variant, clients, now, nObjs, objs, active_sessions, active_streams, nTurns,
                 policyVars, toolVars, handoffVars, graphVars>>

\* the request a turn has sent last
TurnRequest(t) ==
  CASE turns[t].pc \in {"post_user", "user_suspended"} ->
         [kind |-> "user_transcript", entry |-> Entry("user", turns[t].user_text, t),
          posted |-> "user_posted"]
    [] turns[t].pc \in {"post_interest", "interest_suspended"} ->
         [kind |-> "interest_detected",
          entry |-> Entry("interest", Head(turns[t].interests), t),
          posted |-> "interest_posted"]
    [] OTHER ->
         [kind |-> "assistant_transcript",
          entry |-> Entry("assistant", _clean_response_for_tts(turns[t].response), t),
          posted |-> "assistant_posted"]

\* the body of a turn's request has arrived: update_transcript looks the
\* session up in the registry as it is now, which raises KeyError when the
\* entry is gone, and appends the entry or records the interest
TurnPostReturn(t) ==
  /\ turns[t].pc \in {"user_suspended", "interest_suspended", "assistant_suspended"}
  /\ objs' = update_transcript(objs, objs[turns[t].obj].session_id,
                               TurnRequest(t).kind, TurnRequest(t).entry)
  /\ turns' = [turns EXCEPT ![t].pc = TurnRequest(t).posted]
  /\ UNCHANGED <<variant, clients, now, nObjs, active_sessions, active_streams, nTurns,
                 policyVars, toolVars, handoffVars, graphVars>>

\* the handler is resumed: the REST handler appends the user message to its
\* history; the text-generation call starts
TurnUserResumed(t) ==
  /\ turns[t].pc = "user_posted"
  /\ LET o == turns[t].obj
         me == turns[t]
     IN  IF variant = "graph"
         THEN /\ objs' = objs
              /\ turns' = [turns EXCEPT ![t] =
                    [me EXCEPT !.pc = "llm", !.llm_calls = 1,
                               !.history = objs[o].conversation_history]]
         ELSE /\ objs' = [objs EXCEPT ![o].conversation_history =
                            Append(@, HumanMessage(me.user_text))]
              /\ turns' = [turns EXCEPT ![t] = [me EXCEPT !.pc = "llm", !.llm_calls = 1]]
  /\ UNCHANGED <<variant, clients, now, nObjs, active_sessions, active_streams, nTurns,
                 policyVars, toolVars, handoffVars, graphVars>>

\* the REST handler's _extract_interests
_extract_interests(text) == _extract_interest_tags(text)

\* the REST handler once the interests are dealt with: the response joins the
\* history and the assistant request is sent
AfterInterests(me) == [me EXCEPT !.pc = "post_assistant", !.posts = @ + 1, !.interests = <<>>]

\* the text-generation call is over
TurnLlmReturn(t) ==
  /\ turns[t].pc = "llm"
  /\ LET o == turns[t].obj
         me == turns[t]
     IN  IF variant = "graph"
         THEN \E outcome \in process_message(me.history, me.user_text, objs[o].mode) :
                IF outcome.status = "raised"
                THEN turns' = Finish(t, "silence", "llm") /\ objs' = objs
                ELSE /\ objs' = [objs EXCEPT ![o] = Commit(@, t, me.user_text, outcome.result)]
                     /\ turns' = [turns EXCEPT ![t] =
                           [me EXCEPT !.pc = "post_assistant", !.posts = @ + 1,
                                      !.response = outcome.result.response]]
         ELSE \/ turns' = Finish(t, "silence", "llm") /\ objs' = objs
              \/ \E reply \in ChatReplies :
                   IF _extract_interests(reply) # <<>>
                   THEN /\ turns' = [turns EXCEPT ![t] =
                              [me EXCEPT !.pc = "callback", !.response = reply,
                                         !.interests = _extract_interests(reply)]]
                        /\ objs' = objs
                   ELSE /\ turns' = [turns EXCEPT ![t] = AfterInterests([me EXCEPT !.response = reply])]
                        /\ objs' = [objs EXCEPT ![o].conversation_history =
                                      Append(@, AIMessage(reply))]
  /\ UNCHANGED <<variant, clients, now, nObjs, active_sessions, active_streams, nTurns,
                 policyVars, toolVars, handoffVars, graphVars>>

\* REST handler: the task made by on_interest_detected runs
\* handle_interest_detected; the handler that awaits it is not yet resumed
TurnInterestCallback(t) ==
  /\ turns[t].pc = "callback"
  /\ LET o == turns[t].obj
     IN  objs' = [objs EXCEPT ![o] = handle_interest_detected(@, Head(turns[t].interests))]
  /\ turns' = [turns EXCEPT ![t].pc = "callback_done"]
  /\ UNCHANGED <<variant, clients, now, nObjs, active_sessions, active_streams, nTurns,
                 policyVars, toolVars, handoffVars, graphVars>>

\* REST handler: resumed after the task, the handler sends the interest request
TurnInterestResumed(t) ==
  /\ turns[t].pc = "callback_done"
  /\ turns' = [turns EXCEPT ![t] = [@ EXCEPT !.pc = "post_interest", !.posts = @ + 1]]
  /\ UNCHANGED <<variant, clients, now, nObjs, objs, active_sessions, active_streams, nTurns,
                 policyVars, toolVars, handoffVars, graphVars>>

\* the interest request enters update_transcript, or is lost
TurnPostInterest(t) ==
  /\ turns[t].pc = "post_interest"
  /\ \E outcome \in PostOutcomes :
       turns' = [turns EXCEPT ![t].pc =
                   IF Enters(outcome, objs[turns[t].obj].session_id)
                   THEN "interest_suspended" ELSE "interest_posted"]
  /\ UNCHANGED <<variant, clients, now, nObjs, objs, active_sessions, active_streams, nTurns,
                 policyVars, toolVars, handoffVars, graphVars>>

\* REST handler: resumed after the interest request; the next interest's task
\* is made, or the response joins the history and the assistant request is sent
TurnInterestPosted(t) ==
  /\ turns[t].pc = "interest_posted"
  /\ LET o == turns[t].obj
         me == turns[t]
     IN  IF Tail(me.interests) # <<>>
         THEN /\ objs' = objs
              /\ turns' = [turns EXCEPT ![t] =
                             [me EXCEPT !.pc = "callback", !.interests = Tail(@)]]
         ELSE /\ objs' = [objs EXCEPT ![o].conversation_history =
                            Append(@, AIMessage(me.response))]
              /\ turns' = [turns EXCEPT ![t] = AfterInterests(me)]
  /\ UNCHANGED <<variant, clients, now, nObjs, active_sessions, active_streams, nTurns,
                 policyVars, toolVars, handoffVars, graphVars>>

\* what speech synthesis can do, and the segment process returns for it
TtsOutcomes == {"raises", "no_chunks", "chunks"}

\* a process whose except clause hands back the empty segment
Segment_EmptyOnError(tts) ==
  IF tts = "chunks" THEN "audio" ELSE "empty"

Segment(tts) ==
  CASE tts = "raises" -> "silence"
    [] tts = "no_chunks" -> "empty"
    [] OTHER -> "audio"

\* the request with the assistant entry enters update_transcript, or is lost
TurnPostAssistant(t) ==
  /\ turns[t].pc = "post_assistant"
  /\ \E outcome \in PostOutcomes :
       turns' = [turns EXCEPT ![t].pc =
                   IF Enters(outcome, objs[turns[t].obj].session_id)
                   THEN "assistant_suspended" ELSE "assistant_posted"]
  /\ UNCHANGED <<variant, clients, now, nObjs, objs, active_sessions, active_streams, nTurns,
                 policyVars, toolVars, handoffVars, graphVars>>

\* the handler is resumed: speech synthesis, and process returns
TurnAssistantResumed(t) ==
  /\ turns[t].pc = "assistant_posted"
  /\ \E tts \in TtsOutcomes :
       turns' = Finish(t, Segment(tts), IF tts = "raises" THEN "tts" ELSE None)
  /\ UNCHANGED <<variant, clients, now, nObjs, objs, active_sessions, active_streams, nTurns,
                 policyVars, toolVars, handoffVars, graphVars>>

Next ==
  \/ start_interview
  \/ \E o \in ObjIds : TurnBegin(o)
  \/ \E t \in TurnIds : TurnPostUser(t)
  \/ \E t \in TurnIds : TurnPostReturn(t)
  \/ \E t \in TurnIds : TurnUserResumed(t)
  \/ \E t \in TurnIds : TurnLlmReturn(t)
  \/ \E t \in TurnIds : TurnInterestCallback(t)
  \/ \E t \in TurnIds : TurnInterestResumed(t)
  \/ \E t \in TurnIds : TurnPostInterest(t)
  \/ \E t \in TurnIds : TurnInterestPosted(t)
  \/ \E t \in TurnIds : TurnPostAssistant(t)
  \/ \E t \in TurnIds : TurnAssistantResumed(t)

Spec == ServiceInit /\ [][Next]_vars


(***************************************************************************)
(* Thread hand-off: LambdaIntegration.                                     *)
(***************************************************************************)
\* dict.get
Get(m, key, default) == IF key \in DOMAIN m THEN m[key] ELSE default

TitleLimit == 100
TitleKeep == 97
Ellipsis == <<".", ".", ".">>
DefaultTitle ==
  <<"N", "e", "w", " ", "L", "e", "a", "r", "n", "i", "n", "g", " ",
    "T", "h", "r", "e", "a", "d">>
DefaultDescription ==
  <<"L", "e", "a", "r", "n", "i", "n", "g", " ",
    "e", "x", "p", "l", "o", "r", "a", "t", "i", "o", "n">>

\* [m for m in messages if m.get('role') == 'user']
IsUserMessage(m) == Get(m, "role", None) = "user"
UserMessages(messages) == SelectSeq(messages, IsUserMessage)

\* a title that keeps TitleLimit characters before the ellipsis
generate_thread_title_KeepLimit(messages) ==
  LET user_messages == UserMessages(messages)
      first_message == Get(user_messages[1], "content", <<>>)
  IN  IF user_messages = <<>> THEN DefaultTitle
      ELSE IF Len(first_message) > TitleLimit
           THEN SubSeq(first_message, 1, TitleLimit) \o Ellipsis
           ELSE first_message

generate_thread_title(messages) ==
  LET user_messages == UserMessages(messages)
      first_message == Get(user_messages[1], "content", <<>>)
  IN  IF user_messages = <<>> THEN DefaultTitle
      ELSE IF Len(first_message) > TitleLimit
           THEN SubSeq(first_message, 1, TitleKeep) \o Ellipsis
           ELSE first_message

(***************************************************************************)
(* generate_thread_title on drawn message lists.                           *)
(***************************************************************************)
Digits == <<"0", "1", "2", "3", "4", "5", "6", "7", "8", "9">>

\* an utterance of n characters, the k-th one the last digit of k
Utterance(n) == [k \in 1..n |-> Digits[(k % 10) + 1]]

RoleMessage(role, content) == [role |-> role, content |-> content]

TitleInit ==
  /\ \E n \in 0..MaxTitleLen, lead \in BOOLEAN, more \in BOOLEAN :
       tMessages = (IF lead THEN <<RoleMessage("assistant", PlainReply)>> ELSE <<>>)
                     \o <<RoleMessage("user", Utterance(n))>>
                     \o (IF more THEN <<RoleMessage("user", LongText)>> ELSE <<>>)
  /\ tTitle = NoneText
  /\ ends = [e \in EndIds |-> NoEnd]
  /\ answer = NoAnswer
  /\ requests = <<>>
  /\ PolicyIdle
  /\ ToolIdle
  /\ GraphIdle
  /\ ServiceIdle

TitleStep ==
  /\ tTitle = NoneText
  /\ tTitle' = generate_thread_title(tMessages)
  /\ UNCHANGED <<tMessages, ends, answer, requests, policyVars, toolVars, graphVars, serviceVars>>

TitleNext == TitleStep

SpecTitle == TitleInit /\ [][TitleNext]_vars

(***************************************************************************)
(* analyze_conversation: subjects, topics and concepts found by keyword in *)
(* the lowered text of the messages.                                       *)
(***************************************************************************)
UpperCase == <<"A", "B", "C", "D", "E", "F", "G", "H", "I", "J", "K", "L", "M", "N", "O", "P", "Q", "R", "S", "T", "U", "V", "W", "X", "Y", "Z">>
LowerCase == <<"a", "b", "c", "d", "e", "f", "g", "h", "i", "j", "k", "l", "m", "n", "o", "p", "q", "r", "s", "t", "u", "v", "w", "x", "y", "z">>

\* str.lower on one character
LowerChar(c) ==
  IF \E i \in 1..Len(UpperCase) : UpperCase[i] = c
  THEN LowerCase[CHOOSE i \in 1..Len(UpperCase) : UpperCase[i] = c]
  ELSE c

Lower(text) == [k \in 1..Len(text) |-> LowerChar(text[k])]

\* ' '.join(parts)
RECURSIVE Join(_)
Join(parts) ==
  IF parts = <<>> THEN <<>>
  ELSE IF Len(parts) = 1 THEN parts[1]
  ELSE parts[1] \o <<" ">> \o Join(Tail(parts))

\* the test 'word in text' on strings
Contains(text, word) ==
  \E i \in 0..(Len(text) - Len(word)) : SubSeq(text, i + 1, i + Len(word)) = word

conversation_text(messages) ==
  Lower(Join([k \in 1..Len(messages) |-> Get(messages[k], "content", <<>>)]))

subject_keywords ==
  <<
    [ label |-> "Mathematics",
      keywords |-> <<
         <<"m", "a", "t", "h">>,
         <<"c", "a", "l", "c", "u", "l", "u", "s">>,
         <<"a", "l", "g", "e", "b", "r", "a">>,
         <<"g", "e", "o", "m", "e", "t", "r", "y">>,
         <<"s", "t", "a", "t", "i", "s", "t", "i", "c", "s">>,
         <<"e", "q", "u", "a", "t", "i", "o", "n">>,
         <<"t", "h", "e", "o", "r", "e", "m">> >> ],
    [ label |-> "Physics",
      keywords |-> <<
         <<"p", "h", "y", "s", "i", "c", "s">>,
         <<"f", "o", "r", "c", "e">>,
         <<"e", "n", "e", "r", "g", "y">>,
         <<"m", "o", "t", "i", "o", "n">>,
         <<"q", "u", "a", "n", "t", "u", "m">>,
         <<"g", "r", "a", "v", "i", "t", "y">>,
         <<"m", "o", "m", "e", "n", "t", "u", "m">> >> ],
    [ label |-> "Chemistry",
      keywords |-> <<
         <<"c", "h", "e", "m", "i", "s", "t", "r", "y">>,
         <<"c", "h", "e", "m", "i", "c", "a", "l">>,
         <<"m", "o", "l", "e", "c", "u", "l", "e">>,
         <<"r", "e", "a", "c", "t", "i", "o", "n">>,
         <<"e", "l", "e", "m", "e", "n", "t">>,
         <<"c", "o", "m", "p", "o", "u", "n", "d">>,
         <<"a", "t", "o", "m">> >> ],
    [ label |-> "Biology",
      keywords |-> <<
         <<"b", "i", "o", "l", "o", "g", "y">>,
         <<"c", "e", "l", "l">>,
         <<"d", "n", "a">>,
         <<"e", "v", "o", "l", "u", "t", "i", "o", "n">>,
         <<"o", "r", "g", "a", "n", "i", "s", "m">>,
         <<"e", "c", "o", "l", "o", "g", "y">>,
         <<"g", "e", "n", "e", "t", "i", "c", "s">> >> ],
    [ label |-> "Computer Science",
      keywords |-> <<
         <<"p", "r", "o", "g", "r", "a", "m", "m", "i", "n", "g">>,
         <<"a", "l", "g", "o", "r", "i", "t", "h", "m">>,
         <<"c", "o", "d", "e">>,
         <<"s", "o", "f", "t", "w", "a", "r", "e">>,
         <<"c", "o", "m", "p", "u", "t", "e", "r">>,
         <<"d", "a", "t", "a", " ", "s", "t", "r", "u", "c", "t", "u", "r", "e">> >> ],
    [ label |-> "History",
      keywords |-> <<
         <<"h", "i", "s", "t", "o", "r", "y">>,
         <<"h", "i", "s", "t", "o", "r", "i", "c", "a", "l">>,
         <<"c", "i", "v", "i", "l", "i", "z", "a", "t", "i", "o", "n">>,
         <<"w", "a", "r">>,
         <<"r", "e", "v", "o", "l", "u", "t", "i", "o", "n">>,
         <<"a", "n", "c", "i", "e", "n", "t">>,
         <<"m", "o", "d", "e", "r", "n">> >> ],
    [ label |-> "Literature",
      keywords |-> <<
         <<"l", "i", "t", "e", "r", "a", "t", "u", "r", "e">>,
         <<"n", "o", "v", "e", "l">>,
         <<"p", "o", "e", "t", "r", "y">>,
         <<"w", "r", "i", "t", "i", "n", "g">>,
         <<"a", "u", "t", "h", "o", "r">>,
         <<"s", "t", "o", "r", "y">>,
         <<"n", "a", "r", "r", "a", "t", "i", "v", "e">> >> ],
    [ label |-> "Psychology",
      keywords |-> <<
         <<"p", "s", "y", "c", "h", "o", "l", "o", "g", "y">>,
         <<"b", "e", "h", "a", "v", "i", "o", "r">>,
         <<"m", "i", "n", "d">>,
         <<"c", "o", "g", "n", "i", "t", "i", "v", "e">>,
         <<"e", "m", "o", "t", "i", "o", "n">>,
         <<"p", "e", "r", "s", "o", "n", "a", "l", "i", "t", "y">> >> ],
    [ label |-> "Economics",
      keywords |-> <<
         <<"e", "c", "o", "n", "o", "m", "i", "c", "s">>,
         <<"e", "c", "o", "n", "o", "m", "y">>,
         <<"m", "a", "r", "k", "e", "t">>,
         <<"f", "i", "n", "a", "n", "c", "e">>,
         <<"t", "r", "a", "d", "e">>,
         <<"s", "u", "p", "p", "l", "y">>,
         <<"d", "e", "m", "a", "n", "d">> >> ],
    [ label |-> "Art",
      keywords |-> <<
         <<"a", "r", "t">>,
         <<"p", "a", "i", "n", "t", "i", "n", "g">>,
         <<"s", "c", "u", "l", "p", "t", "u", "r", "e">>,
         <<"d", "r", "a", "w", "i", "n", "g">>,
         <<"a", "r", "t", "i", "s", "t", "i", "c">>,
         <<"g", "a", "l", "l", "e", "r", "y">>,
         <<"m", "u", "s", "e", "u", "m">> >> ]
  >>

concept_mapping ==
  <<
    [ keyword |-> <<"c", "a", "l", "c", "u", "l", "u", "s">>,
      concepts |-> <<"Derivatives", "Integrals", "Limits">> ],
    [ keyword |-> <<"a", "l", "g", "e", "b", "r", "a">>,
      concepts |-> <<"Equations", "Variables", "Functions">> ],
    [ keyword |-> <<"p", "h", "y", "s", "i", "c", "s">>,
      concepts |-> <<"Motion", "Forces", "Energy">> ],
    [ keyword |-> <<"c", "h", "e", "m", "i", "s", "t", "r", "y">>,
      concepts |-> <<"Reactions", "Bonds", "Elements">> ],
    [ keyword |-> <<"p", "r", "o", "g", "r", "a", "m", "m", "i", "n", "g">>,
      concepts |-> <<"Algorithms", "Data Structures", "Design Patterns">> ],
    [ keyword |-> <<"e", "c", "o", "n", "o", "m", "i", "c", "s">>,
      concepts |-> <<"Supply and Demand", "Market Theory", "Economic Models">> ]
  >>

topic_keywords ==
  <<
    [ label |-> "Calculus",
      keywords |-> <<
         <<"c", "a", "l", "c", "u", "l", "u", "s">>,
         <<"d", "e", "r", "i", "v", "a", "t", "i", "v", "e">>,
         <<"i", "n", "t", "e", "g", "r", "a", "l">> >> ],
    [ label |-> "Mechanics",
      keywords |-> <<
         <<"p", "h", "y", "s", "i", "c", "s">>,
         <<"m", "o", "t", "i", "o", "n">>,
         <<"f", "o", "r", "c", "e">> >> ],
    [ label |-> "Organic Chemistry",
      keywords |-> <<
         <<"o", "r", "g", "a", "n", "i", "c">>,
         <<"c", "a", "r", "b", "o", "n">>,
         <<"c", "o", "m", "p", "o", "u", "n", "d">> >> ],
    [ label |-> "Genetics",
      keywords |-> <<
         <<"g", "e", "n", "e">>,
         <<"d", "n", "a">>,
         <<"h", "e", "r", "e", "d", "i", "t", "y">> >> ],
    [ label |-> "Algorithms",
      keywords |-> <<
         <<"a", "l", "g", "o", "r", "i", "t", "h", "m">>,
         <<"s", "o", "r", "t", "i", "n", "g">>,
         <<"s", "e", "a", "r", "c", "h", "i", "n", "g">> >> ],
    [ label |-> "World History",
      keywords |-> <<
         <<"h", "i", "s", "t", "o", "r", "y">>,
         <<"c", "i", "v", "i", "l", "i", "z", "a", "t", "i", "o", "n">>,
         <<"c", "u", "l", "t", "u", "r", "e">> >> ],
    [ label |-> "Literary Analysis",
      keywords |-> <<
         <<"l", "i", "t", "e", "r", "a", "t", "u", "r", "e">>,
         <<"t", "h", "e", "m", "e">>,
         <<"c", "h", "a", "r", "a", "c", "t", "e", "r">> >> ]
  >>

\* the labels of a table with a keyword in the text, in the table's order
Matched(tbl, text) ==
  LET hit(row) == \E k \in 1..Len(row.keywords) : Contains(text, row.keywords[k])
      rows == SelectSeq(tbl, hit)
  IN  [k \in 1..Len(rows) |-> rows[k].label]

\* the concepts of every mapping keyword in the text, list after list
RECURSIVE Extended(_, _)
Extended(rows, text) ==
  IF rows = <<>> THEN <<>>
  ELSE (IF Contains(text, Head(rows).keyword) THEN Head(rows).concepts ELSE <<>>)
         \o Extended(Tail(rows), text)

\* list(set(labels)): the labels once each, in an order the build chooses
RECURSIVE Orderings(_)
Orderings(S) ==
  IF S = {} THEN {<<>>}
  ELSE UNION {{<<x>> \o rest : rest \in Orderings(S \ {x})} : x \in S}

Deduplicated(labels) == Orderings({labels[k] : k \in 1..Len(labels)})

GeneralLearning == "General Learning"

\* a default that is added whatever was detected
WithDefault_Always(subjects) == Append(subjects, GeneralLearning)

\* 'Default if nothing detected'
WithDefault(subjects) ==
  IF subjects = <<>> THEN Append(subjects, GeneralLearning) ELSE subjects

\* every analysis analyze_conversation can return for the messages
analyze_conversation(messages) ==
  LET text == conversation_text(messages)
  IN  { [subjects |-> WithDefault(subjects), topics |-> topics, concepts |-> concepts,
         done |-> TRUE] :
          subjects \in Deduplicated(Matched(subject_keywords, text)),
          topics \in Deduplicated(Matched(topic_keywords, text)),
          concepts \in Deduplicated(Extended(concept_mapping, text)) }

\* the contents the analysed messages are drawn from
Vocabulary ==
  { <<"d", "e", "r", "i", "v", "a", "t", "i", "v", "e">>,
    <<"i", "n", "t", "e", "g", "r", "a", "l">>,
    <<"t", "h", "e", " ", "d", "e", "r", "i", "v", "a", "t", "i", "v", "e", " ", "o", "f", " ", "a", "n", " ", "i", "n", "t", "e", "g", "r", "a", "l">>,
    <<"C", "a", "l", "c", "u", "l", "u", "s">>,
    <<"a", "l", "g", "e", "b", "r", "a">>,
    <<"f", "o", "r", "c", "e">>,
    <<"s", "m", "a", "r", "t">>,
    <<"d", "n", "a">>,
    <<"d", "a", "t", "a">>,
    <<"s", "t", "r", "u", "c", "t", "u", "r", "e">>,
    <<"h", "e", "l", "l", "o">> }

\* a message is a role message with a content, or a transcript entry, which
\* has none
AnalysedMessages ==
  {RoleMessage("user", content) : content \in Vocabulary}
    \cup {Entry("user", LongText, 0)}

TaxonomyInit ==
  /\ \E n \in 0..MaxAnalysed : tMessages \in [1..n -> AnalysedMessages]
  /\ tAnalysis = NoAnalysis
  /\ cEnv = NoEnv
  /\ cClock = 0
  /\ cIssued = NoIssue
  /\ cVerdict = NoVerdict
  /\ tTitle = NoneText
  /\ ends = [e \in EndIds |-> NoEnd]
  /\ answer = NoAnswer
  /\ requests = <<>>
  /\ PolicyIdle
  /\ GraphIdle
  /\ ServiceIdle

TaxonomyStep ==
  /\ ~tAnalysis.done
  /\ tAnalysis' \in analyze_conversation(tMessages)
  /\ UNCHANGED <<tMessages, tTitle, ends, answer, requests, cEnv, cClock, cIssued, cVerdict,
                 policyVars, graphVars, serviceVars>>

TaxonomyNext == TaxonomyStep

SpecTaxonomy == TaxonomyInit /\ [][TaxonomyNext]_vars

(***************************************************************************)
(* TURN credentials: TurnCredentialGenerator, get_turn_credentials and the *)
(* ice-servers endpoint of main_rest.py.  The clock counts ticks of        *)
(* 1/TicksPerSecond of a second; int(time.time()) drops the fraction.      *)
(***************************************************************************)
RestDefaultSecret == "spool-turn-secret-2024"
ConfiguredSecret == "configured-secret"
default_ttl == 86400
RestTtl == 3600

\* time.time() in ticks, and int(time.time()) in seconds
Time == cClock
IntTime == cClock \div TicksPerSecond

\* str(n) for an integer
RECURSIVE Str(_)
Str(n) ==
  IF n < 0 THEN <<"-">> \o Str(-n)
  ELSE IF n < 10 THEN <<Digits[n + 1]>>
  ELSE Str(n \div 10) \o <<Digits[(n % 10) + 1]>>

IsDigit(c) == \E i \in 1..Len(Digits) : Digits[i] = c

DigitValue(c) == (CHOOSE i \in 1..Len(Digits) : Digits[i] = c) - 1

RECURSIVE Magnitude(_)
Magnitude(digits) ==
  IF digits = <<>> THEN 0
  ELSE Magnitude(SubSeq(digits, 1, Len(digits) - 1)) * 10 + DigitValue(digits[Len(digits)])

\* the literal int() reads: the text without the whitespace around it and
\* without its sign
Unsigned(text) ==
  LET t == Strip(text)
  IN  IF t # <<>> /\ Head(t) \in {"-", "+"} THEN Tail(t) ELSE t

\* int(text): whitespace around it is dropped; then a sign and decimal
\* digits, single underscores allowed between two digits; ValueError otherwise
IsInt(text) ==
  LET digits == Unsigned(text)
  IN  /\ digits # <<>>
      /\ \A k \in 1..Len(digits) :
            \/ IsDigit(digits[k])
            \/ /\ digits[k] = "_"
               /\ 1 < k /\ k < Len(digits)
               /\ IsDigit(digits[k - 1]) /\ IsDigit(digits[k + 1])

Int_(text) ==
  IF Head(Strip(text)) = "-" THEN 0 - Magnitude(SelectSeq(Unsigned(text), IsDigit))
  ELSE Magnitude(SelectSeq(Unsigned(text), IsDigit))

\* HMAC-SHA1 of a message under a key: different arguments, different digests
Hmac(key, message) == <<"hmac-sha1", key, message>>
Base64(digest) == <<"base64", digest>>
Hex(digest) == <<"hex", digest>>

\* the ttl argument: none given, or the number of seconds given
NoTtl == <<>>
Ttl(seconds) == <<seconds>>

\* 'ttl = ttl or self.default_ttl'
EffectiveTtl(ttl) == IF ttl = NoTtl \/ ttl[1] = 0 THEN default_ttl ELSE ttl[1]

generate_credentials(secret, username, ttl) ==
  LET timestamp == IntTime + EffectiveTtl(ttl)
      turn_username == Str(timestamp) \o <<":">> \o username
  IN  [username |-> turn_username,
       credential |-> Base64(Hmac(secret, turn_username))]

generate_credentials_for_session(secret, session_id, user_id) ==
  generate_credentials(secret,
                       IF user_id # <<>> THEN user_id \o <<"_">> \o session_id
                       ELSE session_id,
                       NoTtl)

\* get_ice_servers of main_rest.py
rest_get_ice_servers(env, session_id) ==
  LET turn_secret == Getenv(env.TURN_SECRET, RestDefaultSecret)
      expiry == IntTime + RestTtl
      username == Str(expiry) \o <<":", "s", "p", "o", "o", "l", "_">>
                    \o SubSeq(session_id, 1, IF Len(session_id) < 8 THEN Len(session_id) ELSE 8)
  IN  [username |-> username, credential |-> Hex(Hmac(turn_secret, username))]

\* position of the first ':' of a text, 0 when there is none
FirstColon(text) ==
  LET hits == {k \in 1..Len(text) : text[k] = ":"}
  IN  IF hits = {} THEN 0 ELSE CHOOSE k \in hits : \A j \in hits : k <= j

\* a validation that only looks at the expiry
validate_credentials_ExpiryOnly(secret, username, password) ==
  LET colon == FirstColon(username)
      timestamp_str == SubSeq(username, 1, colon - 1)
  IN  IF colon = 0 THEN FALSE
      ELSE IF ~IsInt(timestamp_str) THEN FALSE
      ELSE ~(Int_(timestamp_str) * TicksPerSecond < Time)

\* a validation that never looks at the clock
validate_credentials_NoExpiry(secret, username, password) ==
  LET colon == FirstColon(username)
      timestamp_str == SubSeq(username, 1, colon - 1)
  IN  IF colon = 0 THEN FALSE
      ELSE IF ~IsInt(timestamp_str) THEN FALSE
      ELSE password = Base64(Hmac(secret, username))

\* validate_credentials: the split, int() and the comparison with the clock
\* are inside try, and ValueError gives False
validate_credentials(secret, username, password) ==
  LET colon == FirstColon(username)
      timestamp_str == SubSeq(username, 1, colon - 1)
  IN  IF colon = 0 THEN FALSE
      ELSE IF ~IsInt(timestamp_str) THEN FALSE
      ELSE IF Int_(timestamp_str) * TicksPerSecond < Time THEN FALSE
      ELSE password = Base64(Hmac(secret, username))

\* what the callers hand in
Identities == {<<"a">>, <<"a", ":", "b">>}
Ttls == {NoTtl, Ttl(0), Ttl(1), Ttl(2)}
SecretSettings == {None, ConfiguredSecret}
SessionIdText == <<"i", "n", "t", "e", "r", "v", "i", "e", "w", "_", "u", "_", "1">>
UserIdText == <<"u">>

\* the service the credentials are issued in: main.py as it starts, with no
\* voice agent and a session registered without a handler, or main_rest.py
\* with the session's handler built and its stream mounted
CredService ==
  /\ variant \in {"graph", "rest"}
  /\ clients = IF variant = "graph" THEN Unwired ELSE Wired
  /\ now = 1
  /\ nObjs = 1
  /\ objs = [o \in ObjIds |->
               IF o # 1 THEN NoSession
               ELSE IF variant = "graph" THEN InterviewSession(1, None)
                    ELSE InterviewHandler(InterviewSession(1, None))]
  /\ active_sessions = [sid \in Sids |-> IF sid = 1 THEN 1 ELSE 0]
  /\ active_streams = IF variant = "graph" THEN {} ELSE {1}
  /\ nTurns = 0
  /\ turns = [t \in TurnIds |-> NoTurn]

CredInit ==
  /\ \E static \in SecretSettings, rest \in SecretSettings :
       cEnv = [NoEnv EXCEPT !.TURN_STATIC_AUTH_SECRET = static, !.TURN_SECRET = rest]
  /\ cClock = 0
  /\ cIssued = NoIssue
  /\ cVerdict = NoVerdict
  /\ tAnalysis = NoAnalysis
  /\ tMessages = <<>>
  /\ tTitle = NoneText
  /\ ends = [e \in EndIds |-> NoEnd]
  /\ answer = NoAnswer
  /\ requests = <<>>
  /\ PolicyIdle
  /\ GraphIdle
  /\ CredService

CredQuiet ==
  UNCHANGED <<tAnalysis, tMessages, tTitle, ends, requests,
              policyVars, graphVars, serviceVars>>

\* the clock moves on
CredTick ==
  /\ cClock < MaxTicks
  /\ cClock' = cClock + 1
  /\ UNCHANGED <<cEnv, cIssued, cVerdict, answer>>
  /\ CredQuiet

Issue(path, identity, ttl, env, pair, secret) ==
  [ path |-> path, identity |-> identity, ttl |-> ttl, at |-> Time, seconds |-> IntTime,
    username |-> pair.username, credential |-> pair.credential,
    fallback |-> (secret \in {DefaultSecret, RestDefaultSecret}),
    flagged |-> env.warned ]

\* generator.generate_credentials(username, ttl) on the module's generator,
\* which main.py and voice_agent.py import and main_rest.py does not
IssueGenerate ==
  /\ variant = "graph"
  /\ cIssued = NoIssue
  /\ \E identity \in Identities, ttl \in Ttls :
       LET env == Constructed_(cEnv)
       IN  /\ cEnv' = env
           /\ cIssued' = Issue("generate", identity, ttl, env,
                               generate_credentials(env.generator, identity, ttl),
                               env.generator)
  /\ UNCHANGED <<cClock, cVerdict, answer>>
  /\ CredQuiet

\* main.py get_ice_servers: not-found for an id that is not registered,
\* otherwise get_turn_credentials(username=user, session_id=id)
IssueForSession ==
  /\ variant = "graph"
  /\ cIssued = NoIssue
  /\ \E sid \in Sids :
       IF active_sessions[sid] = 0
       THEN /\ answer' = NotFound("ice-servers", sid)
            /\ UNCHANGED <<cEnv, cIssued>>
       ELSE LET env == Constructed_(cEnv)
            IN  /\ answer' = [op |-> "ice-servers", sid |-> sid, status |-> "ok"]
                /\ cEnv' = env
                /\ cIssued' = Issue("session", UserIdText \o <<"_">> \o SessionIdText,
                                    NoTtl, env,
                                    generate_credentials_for_session(env.generator,
                                                                     SessionIdText,
                                                                     UserIdText),
                                    env.generator)
  /\ UNCHANGED <<cClock, cVerdict>>
  /\ CredQuiet

\* main_rest.py get_ice_servers: not-found for an id that is not registered,
\* otherwise the pair computed in the endpoint
IssueRest ==
  /\ variant = "rest"
  /\ cIssued = NoIssue
  /\ \E sid \in Sids :
       IF active_sessions[sid] = 0
       THEN /\ answer' = NotFound("ice-servers", sid)
            /\ cIssued' = cIssued
       ELSE /\ answer' = [op |-> "ice-servers", sid |-> sid, status |-> "ok"]
            /\ cIssued' = Issue("rest", SessionIdText, Ttl(RestTtl), cEnv,
                                rest_get_ice_servers(cEnv, SessionIdText),
                                Getenv(cEnv.TURN_SECRET, RestDefaultSecret))
  /\ UNCHANGED <<cEnv, cClock, cVerdict>>
  /\ CredQuiet

\* the usernames and passwords presented for an issued pair: the pair itself,
\* and the pair with one part changed; three of the changes leave the prefix
\* a text int() reads as the same number
PresentedUsernames(issue) ==
  LET colon == FirstColon(issue.username)
      prefix == SubSeq(issue.username, 1, colon - 1)
      rest == SubSeq(issue.username, colon, Len(issue.username))
  IN  { issue.username,
        Str(Int_(prefix) + 1) \o rest,
        <<"0">> \o issue.username,
        issue.username \o <<"x">>,
        prefix,
        <<"x">> \o issue.username,
        <<" ">> \o issue.username,
        prefix \o <<" ">> \o rest,
        IF Len(prefix) < 2 THEN <<"0", "_">> \o issue.username
        ELSE <<Head(prefix), "_">> \o Tail(prefix) \o rest }

PresentedPasswords(issue, secret, username) ==
  { issue.credential,
    Base64(Hmac("guess", username)),
    Base64(Hmac(secret, username)) }

\* generator.validate_credentials(username, password)
Validate ==
  /\ cIssued # NoIssue
  /\ LET env == Constructed_(cEnv)
     IN  /\ cEnv' = env
         /\ \E username \in PresentedUsernames(cIssued) :
              \E password \in PresentedPasswords(cIssued, env.generator, username) :
                cVerdict' = [asked |-> TRUE, username |-> username, password |-> password,
                             at |-> Time,
                             result |-> validate_credentials(env.generator, username,
                                                             password)]
  /\ UNCHANGED <<cClock, cIssued, answer>>
  /\ CredQuiet

CredNext ==
  \/ CredTick
  \/ IssueGenerate
  \/ IssueForSession
  \/ IssueRest
  \/ Validate

SpecCred == CredInit /\ [][CredNext]_vars

(***************************************************************************)
(* Ending a session: end_interview, save_session_data and the query        *)
(* endpoints, in the two services as their startup leaves them.  main.py   *)
(* has no client, so its save_session_data awaits nothing and its          *)
(* end_interview runs to its return; main_rest.py has the analytics        *)
(* client, whose call end_interview awaits, and no thread creation.        *)
(***************************************************************************)
\* the module-level clients of main.py as startup_event leaves them: it stops
\* at the unimported LangflowClient
AsStarted ==
  [langflow_client |-> FALSE, voice_agent |-> FALSE, lambda_integration |-> FALSE]

\* transform_interview_to_thread: the payload built from lambda_data
transform_interview_to_thread(interview_data) ==
  LET messages == interview_data.messages
      user_messages == UserMessages(messages)
      primary_question == IF user_messages # <<>>
                          THEN Get(user_messages[1], "content", DefaultDescription)
                          ELSE DefaultDescription
  IN  [ userId |-> interview_data.student_id,
        title |-> generate_thread_title(messages),
        description |-> primary_question,
        interests |-> interview_data.extracted_interests,
        sessionId |-> interview_data.session_id,
        mode |-> interview_data.mode ]

\* lambda_data as save_session_data builds it from the session
LambdaData(session) ==
  [ session_id |-> session.session_id,
    student_id |-> "user",
    messages |-> session.transcript,
    extracted_interests |-> session.interests,
    mode |-> session.mode ]

EndInit ==
  /\ variant \in {"graph", "rest"}
  /\ clients = (IF variant = "graph" THEN AsStarted ELSE Wired)
  /\ now = 1
  /\ nObjs = 1
  /\ \E mode \in (IF variant = "graph" THEN Modes ELSE {None}) :
       objs = [o \in ObjIds |->
                 IF o # 1 THEN NoSession
                 ELSE IF clients.voice_agent
                      THEN InterviewHandler(InterviewSession(1, mode))
                      ELSE InterviewSession(1, mode)]
  /\ active_sessions = [sid \in Sids |-> IF sid = 1 THEN 1 ELSE 0]
  /\ active_streams = IF clients.voice_agent THEN {1} ELSE {}
  /\ nTurns = 0
  /\ turns = [t \in TurnIds |-> NoTurn]
  /\ ends = [e \in EndIds |-> NoEnd]
  /\ answer = NoAnswer
  /\ requests = <<>>
  /\ tMessages = <<>>
  /\ tTitle = NoneText
  /\ PolicyIdle
  /\ ToolIdle
  /\ GraphIdle

\* what a call of end_interview, or of save_session_data, has changed so far
World(e) ==
  [ objs |-> objs, active_sessions |-> active_sessions,
    active_streams |-> active_streams, requests |-> requests, end |-> ends[e] ]

\* save_session_data returns; it raises nothing, its except clause prints
Saved(w) == [w EXCEPT !.end.pc = "saved", !.end.out = "returned"]

\* save_session_data after the analytics call: main.py makes the thread
\* request when the mode is thread and the Lambda client exists; main_rest.py
\* has no thread creation
ThreadStage(w) ==
  LET session == w.objs[w.end.obj]
  IN  IF variant = "graph" /\ session.mode = "thread" /\ clients.lambda_integration
      THEN [w EXCEPT
              !.requests = Append(@, [to |-> "thread", obj |-> w.end.obj,
                                      messages |-> LambdaData(session).messages,
                                      payload |-> transform_interview_to_thread(
                                                    LambdaData(session))]),
              !.end.pc = "thread"]
      ELSE Saved(w)

\* save_session_data up to the analytics call
AnalyticsStage(w) ==
  IF clients.langflow_client
  THEN [w EXCEPT
          !.requests = Append(@, [to |-> "analytics", obj |-> w.end.obj,
                                  payload |-> w.objs[w.end.obj].transcript]),
          !.end.pc = "analytics"]
  ELSE ThreadStage(w)

\* end_interview after save_session_data: the stream entry is deleted when
\* there is one, then the session entry, which raises KeyError when it is gone
Teardown(w) ==
  LET sid == w.end.sid
      dropped == [w EXCEPT !.active_streams = @ \ {sid}, !.end.pc = "done"]
  IN  IF w.active_sessions[sid] = 0
      THEN [dropped EXCEPT !.end.out = "internal_error"]
      ELSE [dropped EXCEPT !.active_sessions[sid] = 0, !.end.out = "completed"]

\* end_interview goes on when the save_session_data it awaits has returned
Resumed(w) == IF w.end.pc = "saved" THEN Teardown(w) ELSE w

Becomes(e, w) ==
  /\ objs' = w.objs
  /\ active_sessions' = w.active_sessions
  /\ active_streams' = w.active_streams
  /\ requests' = w.requests
  /\ ends' = [ends EXCEPT ![e] = w.end]

\* POST /api/interview/{session_id}/end, up to its first await or its return
end_interview(sid) ==
  /\ \E e \in EndIds :
       /\ ends[e].pc = "none"
       /\ \A d \in EndIds : d < e => ends[d].pc # "none"
       /\ IF active_sessions[sid] = 0
          THEN /\ ends' = [ends EXCEPT ![e] = [NoEnd EXCEPT !.sid = sid, !.pc = "done",
                                                           !.out = "not_found"]]
               /\ UNCHANGED <<objs, active_sessions, active_streams, requests>>
          ELSE LET o == active_sessions[sid]
                   w == [World(e) EXCEPT
                           !.objs[o].ended = TRUE,
                           !.end = [NoEnd EXCEPT !.sid = sid, !.obj = o, !.pc = "start"]]
               IN  Becomes(e, Resumed(AnalyticsStage(w)))
  /\ UNCHANGED <<variant, clients, now, nObjs, nTurns, turns, answer, tMessages, tTitle,
                 policyVars, toolVars, graphVars>>

\* what the downstream analytics call does: it answers, or it fails (an error
\* status, a timeout, a refused connection)
AnalyticsOutcomes == {"ok", "error"}

\* a client that lets the failure of the call out
process_interview_Raising(outcome) ==
  IF outcome = "ok" THEN "result" ELSE "raised"

\* LangflowClient.process_interview: the answer, or the error it caught
process_interview(outcome) ==
  IF outcome = "ok" THEN "result" ELSE "error_result"

\* save_session_data after process_interview: an exception leaves through the
\* outer except clause, anything returned is printed and the thread stage runs
AfterAnalytics(w, result) ==
  IF result = "raised" THEN Saved(w) ELSE ThreadStage(w)

EndAnalyticsReturn(e) ==
  /\ ends[e].pc = "analytics"
  /\ \E outcome \in AnalyticsOutcomes :
       Becomes(e, Resumed(AfterAnalytics([World(e) EXCEPT !.end.analytics = outcome],
                                         process_interview(outcome))))
  /\ UNCHANGED <<variant, clients, now, nObjs, nTurns, turns, answer, tMessages, tTitle,
                 policyVars, toolVars, graphVars>>

\* a transcript request is suspended in update_transcript's await of its body;
\* answer holds one call, so the other calls that answer wait for it
Suspended == answer.op = "transcript" /\ answer.status = "suspended"

\* GET /api/interview/{session_id}/status
get_interview_status(sid) ==
  /\ ~Suspended
  /\ answer' = IF active_sessions[sid] = 0 THEN NotFound("status", sid)
               ELSE [ op |-> "status", sid |-> sid, status |-> "ok",
                      active |-> (sid \in active_streams),
                      interests_found |-> Len(objs[active_sessions[sid]].interests) ]
  /\ UNCHANGED <<serviceVars, ends, requests, tMessages, tTitle, policyVars, toolVars, graphVars>>

\* what main.py's get_interview_results adds to the results: the thread id of
\* a created thread, or else the error of the attempt
ThreadInfo(session) ==
  [ thread_id |-> IF session.thread_created THEN session.thread_id ELSE None,
    thread_created |-> session.thread_created,
    thread_creation_error |-> IF session.thread_created THEN None
                              ELSE session.thread_creation_error ]

\* GET /api/interview/{session_id}/results; main_rest.py answers without any
\* thread information
get_interview_results(sid) ==
  /\ ~Suspended
  /\ answer' = IF active_sessions[sid] = 0 THEN NotFound("results", sid)
               ELSE LET session == objs[active_sessions[sid]]
                        results == [ op |-> "results", sid |-> sid, status |-> "ok",
                                     interests |-> session.interests ]
                    IN  IF variant = "graph" THEN results @@ ThreadInfo(session)
                        ELSE results
  /\ UNCHANGED <<serviceVars, ends, requests, tMessages, tTitle, policyVars, toolVars, graphVars>>

\* GET /api/interview/{session_id}/ice-servers; main.py answers a registered
\* id with get_turn_credentials, which builds the generator on its first call
get_ice_servers(sid) ==
  /\ ~Suspended
  /\ answer' = IF active_sessions[sid] = 0 THEN NotFound("ice-servers", sid)
               ELSE [op |-> "ice-servers", sid |-> sid, status |-> "ok"]
  /\ cEnv' = IF variant = "graph" /\ active_sessions[sid] # 0 THEN Constructed_(cEnv)
             ELSE cEnv
  /\ UNCHANGED <<serviceVars, ends, requests, tMessages, tTitle, policyVars, tAnalysis,
                 cClock, cIssued, cVerdict, graphVars>>

\* POST /api/interview/{session_id}/transcript with a user entry, up to the
\* await of the request body: an id that is not registered is answered at once
post_transcript(sid) ==
  /\ ~Suspended
  /\ active_sessions[sid] # 0 => Len(objs[active_sessions[sid]].transcript) < MaxEntries
  /\ IF active_sessions[sid] = 0
     THEN /\ answer' = NotFound("transcript", sid)
          /\ objs' = update_transcript(objs, sid, "user_transcript",
                                       Entry("user", LongText, 0))
     ELSE /\ answer' = [op |-> "transcript", sid |-> sid, status |-> "suspended"]
          /\ objs' = objs
  /\ UNCHANGED <<variant, clients, now, nObjs, active_sessions, active_streams, nTurns,
                 turns, ends, requests, tMessages, tTitle, policyVars, toolVars, graphVars>>

\* the body has arrived: the endpoint looks the session up, which raises
\* KeyError when the entry has been deleted meanwhile, and appends the entry
PostTranscriptReturn ==
  /\ Suspended
  /\ answer' = [op |-> "transcript", sid |-> answer.sid,
                status |-> IF active_sessions[answer.sid] = 0 THEN "internal_error"
                           ELSE "ok"]
  /\ objs' = update_transcript(objs, answer.sid, "user_transcript",
                               Entry("user", LongText, 0))
  /\ UNCHANGED <<variant, clients, now, nObjs, active_sessions, active_streams, nTurns,
                 turns, ends, requests, tMessages, tTitle, policyVars, toolVars, graphVars>>

EndNext ==
  \/ start_interview
  \/ \E sid \in Sids : end_interview(sid)
  \/ \E e \in EndIds : EndAnalyticsReturn(e)
  \/ \E sid \in Sids : get_interview_status(sid)
  \/ \E sid \in Sids : get_interview_results(sid)
  \/ \E sid \in Sids : get_ice_servers(sid)
  \/ \E sid \in Sids : post_transcript(sid)
  \/ PostTranscriptReturn

SpecEnd == EndInit /\ [][EndNext]_vars

(***************************************************************************)
(* A session of the REST service is ended while its handler is processing  *)
(* a turn: the steps of InterviewHandler.process together with             *)
(* end_interview.  The handler and the callback made for it keep the       *)
(* session object they were built with, also after the registry has        *)
(* dropped it.                                                             *)
(***************************************************************************)
EndTurnInit ==
  /\ variant = "rest"
  /\ clients = Wired
  /\ now = 1
  /\ nObjs = 1
  /\ objs = [o \in ObjIds |->
               IF o # 1 THEN NoSession ELSE InterviewHandler(InterviewSession(1, None))]
  /\ active_sessions = [sid \in Sids |-> IF sid = 1 THEN 1 ELSE 0]
  /\ active_streams = {1}
  /\ nTurns = 0
  /\ turns = [t \in TurnIds |-> NoTurn]
  /\ HandoffIdle
  /\ PolicyIdle
  /\ ToolIdle
  /\ GraphIdle

\* the one turn that is in flight when the session is ended
EndTurnBegin(o) ==
  /\ nTurns = 0
  /\ TurnBegin(o)

EndTurnNext ==
  \/ \E o \in ObjIds : EndTurnBegin(o)
  \/ \E t \in TurnIds : TurnPostUser(t)
  \/ \E t \in TurnIds : TurnPostReturn(t)
  \/ \E t \in TurnIds : TurnUserResumed(t)
  \/ \E t \in TurnIds : TurnLlmReturn(t)
  \/ \E t \in TurnIds : TurnInterestCallback(t)
  \/ \E t \in TurnIds : TurnInterestResumed(t)
  \/ \E t \in TurnIds : TurnPostInterest(t)
  \/ \E t \in TurnIds : TurnInterestPosted(t)
  \/ \E t \in TurnIds : TurnPostAssistant(t)
  \/ \E t \in TurnIds : TurnAssistantResumed(t)
  \/ \E sid \in Sids : end_interview(sid)
  \/ \E e \in EndIds : EndAnalyticsReturn(e)

SpecEndTurn == EndTurnInit /\ [][EndTurnNext]_vars

(***************************************************************************)
(* main.py's save_session_data as a function of its inputs: the session it *)
(* is handed and the module-level clients it reads, both drawn.  main.py   *)
(* as it starts binds neither client, so these calls are not calls the     *)
(* service makes; they say what the function does for each input.          *)
(***************************************************************************)
\* the values of langflow_client and lambda_integration the function may find
Collaborators ==
  { [langflow_client |-> analytics, voice_agent |-> FALSE, lambda_integration |-> lambda] :
      analytics \in BOOLEAN, lambda \in BOOLEAN }

\* the result of a call of process_message that returned in wrap_up: two
\* interests and, in thread mode, the thread flag and the summary
DrawnResult(mode) ==
  [ response |-> PlainReply,
    interests |-> << <<"a">>, <<"b">> >>,
    stage |-> "wrap_up",
    should_create_thread |-> (mode = "thread"),
    thread_summary |-> IF mode = "thread" THEN SummaryReply ELSE NoneText,
    concepts |-> <<>> ]

\* a session in which a turn with that result has been recorded
Conversed(session) ==
  Commit([session EXCEPT !.transcript = <<Entry("user", LongText, 0)>>],
         0, LongText, DrawnResult(session.mode))

\* the sessions the function is applied to: as start_interview builds it, with
\* one user entry, and with a recorded turn
SavedSessions ==
  UNION { { InterviewSession(1, mode),
            [InterviewSession(1, mode) EXCEPT !.transcript = <<Entry("user", text, 0)>>],
            Conversed(InterviewSession(1, mode)) } :
          mode \in Modes, text \in {LongText, PaddedText} }

SaveInit ==
  /\ variant = "graph"
  /\ clients \in Collaborators
  /\ now = 1
  /\ nObjs = 1
  /\ \E session \in SavedSessions :
       objs = [o \in ObjIds |-> IF o = 1 THEN session ELSE NoSession]
  /\ active_sessions = [sid \in Sids |-> 0]
  /\ active_streams = {}
  /\ nTurns = 0
  /\ turns = [t \in TurnIds |-> NoTurn]
  /\ HandoffIdle
  /\ PolicyIdle
  /\ ToolIdle
  /\ GraphIdle

\* save_session_data(session), up to its first await or its return
save_session_data ==
  /\ ends[1].pc = "none"
  /\ Becomes(1, AnalyticsStage([World(1) EXCEPT
                                  !.end = [NoEnd EXCEPT !.obj = 1, !.pc = "start"]]))
  /\ UNCHANGED <<variant, clients, now, nObjs, nTurns, turns, answer, tMessages, tTitle,
                 policyVars, toolVars, graphVars>>

\* process_interview is over
SaveAnalyticsReturn ==
  /\ ends[1].pc = "analytics"
  /\ \E outcome \in AnalyticsOutcomes :
       Becomes(1, AfterAnalytics([World(1) EXCEPT !.end.analytics = outcome],
                                 process_interview(outcome)))
  /\ UNCHANGED <<variant, clients, now, nObjs, nTurns, turns, answer, tMessages, tTitle,
                 policyVars, toolVars, graphVars>>

\* create_thread_from_interview returns a result with a threadId, a result
\* without one, or raises
ThreadOutcomes == {"created", "no_id", "raises"}

ThreadId(o) == "thread-" \o ToString(o)

\* what save_session_data stores in the metadata for an outcome
Recorded(session, o, outcome) ==
  CASE outcome = "created" ->
         [session EXCEPT !.thread_id = ThreadId(o), !.thread_created = TRUE]
    [] outcome = "no_id" ->
         [session EXCEPT !.thread_id = None, !.thread_created = TRUE]
    [] OTHER ->
         [session EXCEPT !.thread_creation_error = "error"]

\* create_thread_from_interview is over
SaveThreadReturn ==
  /\ ends[1].pc = "thread"
  /\ \E outcome \in ThreadOutcomes :
       Becomes(1, Saved([World(1) EXCEPT !.end.thread = outcome,
                                         !.objs[1] = Recorded(@, 1, outcome)]))
  /\ UNCHANGED <<variant, clients, now, nObjs, nTurns, turns, answer, tMessages, tTitle,
                 policyVars, toolVars, graphVars>>

SaveNext ==
  \/ save_session_data
  \/ SaveAnalyticsReturn
  \/ SaveThreadReturn

SpecSave == SaveInit /\ [][SaveNext]_vars

(***************************************************************************)
(* transform_interview_to_thread on drawn interview data: lists of up to   *)
(* MaxPayloadMsgs messages, either with the keys the function reads, role  *)
(* and content, or with the keys of a transcript entry, speaker and text,  *)
(* which is what save_session_data hands it as "messages".                 *)
(***************************************************************************)
\* a transcript entry as the handlers and update_transcript write it, and a
\* message with the keys of the Lambda contract
PayloadEntries(shape) ==
  { IF shape = "transcript" THEN Entry(speaker, text, 0) ELSE RoleMessage(speaker, text) :
      speaker \in {"user", "assistant"}, text \in {LongText, PaddedText} }

PayloadMessages ==
  UNION { UNION { [1..n -> PayloadEntries(shape)] : n \in 0..MaxPayloadMsgs } :
          shape \in {"transcript", "contract"} }

PayloadInit ==
  /\ tMessages \in PayloadMessages
  /\ tTitle = NoneText
  /\ requests = <<>>
  /\ ends = [e \in EndIds |-> NoEnd]
  /\ answer = NoAnswer
  /\ PolicyIdle
  /\ ToolIdle
  /\ GraphIdle
  /\ ServiceIdle

PayloadStep ==
  /\ requests = <<>>
  /\ requests' = <<[ to |-> "thread", obj |-> 0, messages |-> tMessages,
                     payload |-> transform_interview_to_thread(
                                   [ session_id |-> 1, student_id |-> "user",
                                     messages |-> tMessages,
                                     extracted_interests |-> <<>>,
                                     mode |-> "thread" ]) ]>>
  /\ UNCHANGED <<ends, answer, tMessages, tTitle, policyVars, graphVars, serviceVars, toolVars>>

PayloadNext == PayloadStep

SpecPayload == PayloadInit /\ [][PayloadNext]_vars

(***************************************************************************)
(* Claims.                                                                 *)
(***************************************************************************)
\* user and assistant messages of a state, counted from the messages themselves
ChatTurns(state) ==
  Cardinality({k \in 1..Len(state.messages) :
                 state.messages[k].type = "human" \/ state.messages[k].type = "ai"})

\* C1: over the calls of process_message made for one conversation the
\* interview stage never moves backward in the order greeting, exploration,
\* deep_dive, wrap_up, terminated: no step, the start of the next call
\* included, takes the stage of the graph state to an earlier stage.
C1_StageNeverMovesBackward ==
  [][StageRank(gState'.interview_stage) >= StageRank(gState.interview_stage)]_vars

\* C2: within one processed user message the response-composition step runs
\* exactly once: a call never executes generate_response a second time, and a
\* call that returns has executed it once.
C2_OneResponsePerTurn ==
  /\ gGen <= 1
  /\ gNode = "END" => gGen = 1

\* C3: one evaluation of the transition policy moves greeting to exploration
\* iff turns > 2, exploration to deep_dive iff interests >= 2 and turns > 6,
\* deep_dive to wrap_up iff turns > 12, and leaves the stage unchanged in every
\* other case.
C3_TransitionPolicy ==
  pDone =>
    LET count == ChatTurns(pIn)
        names == Cardinality({pIn.interests[k] : k \in 1..Len(pIn.interests)})
        from == pIn.interview_stage
        to == pState.interview_stage
    IN  /\ from = "greeting" => to = (IF count > 2 THEN "exploration" ELSE from)
        /\ from = "exploration" =>
             to = (IF names >= 2 /\ count > 6 THEN "deep_dive" ELSE from)
        /\ from = "deep_dive" => to = (IF count > 12 THEN "wrap_up" ELSE from)
        /\ from = "wrap_up" => to = from

\* an evaluation that moved exploration to deep_dive at the smallest counts
C3_Witness ==
  /\ pDone
  /\ pIn.interview_stage = "exploration"
  /\ pState.interview_stage = "deep_dive"
  /\ ChatTurns(pIn) = 7
  /\ Len(pIn.interests) = 2

\* the graph has taken the terminal decision: _should_continue has answered
\* "end" or "prepare_thread", which is what the code has for terminated
Terminated == gNode \in {"prepare_thread_data", "END"}

\* the user and assistant entries the conversation holds with the turn being
\* processed: those of the history, the user message and one response
ConversationTurns == Len(gHist) + 2

\* C4: the terminal decision is taken only in stage wrap_up with a turn
\* count, the user and assistant entries of the conversation, above 15, and
\* the graph goes on to another round after a response only when the stage is
\* not wrap_up or that count is at most 15.
C4_TerminalDecision ==
  /\ Terminated =>
       (gState.interview_stage = "wrap_up" /\ ConversationTurns > WrapUpMessages)
  /\ (gNode = "analyze_input" /\ gGen > 0) =>
       ~(gState.interview_stage = "wrap_up" /\ ConversationTurns > WrapUpMessages)

IsPrefix(s, t) == Len(s) <= Len(t) /\ SubSeq(t, 1, Len(s)) = s

\* the entries of speaker that turn t has in a transcript
EntriesOf(transcript, t, speaker) ==
  {k \in 1..Len(transcript) : transcript[k].turn = t /\ transcript[k].speaker = speaker}

\* turn t has got a text from speech-to-text and the text is empty or short
GotShortText(t) ==
  turns[t].pc # "none" /\ turns[t].user_text # NoneText /\ TooShort(turns[t].user_text)

\* turn t has returned without any call raising and without the short-text exit
Completed(t) ==
  turns[t].pc = "done" /\ turns[t].raised = None /\ ~GotShortText(t)

InFlight(t) == turns[t].pc \notin {"none", "done"}

\* C5: a turn that is not aborted leaves exactly one user entry followed by
\* exactly one assistant entry in the transcript of its session, and no turn
\* ever has more than one entry of a speaker there.
C5_OneUserOneAssistantEntry ==
  \A t \in TurnIds :
    turns[t].pc # "none" =>
      LET transcript == objs[turns[t].obj].transcript
          user == EntriesOf(transcript, t, "user")
          assistant == EntriesOf(transcript, t, "assistant")
      IN  /\ Cardinality(user) <= 1
          /\ Cardinality(assistant) <= 1
          /\ Completed(t) =>
               /\ Cardinality(user) = 1
               /\ Cardinality(assistant) = 1
               /\ \A i \in user, j \in assistant : i < j

\* C6: a turn whose speech-to-text result is empty or shorter than two
\* characters has returned the empty segment, has sent no transcript request
\* and has made no text-generation call.
C6_ShortTextAborts ==
  \A t \in TurnIds :
    GotShortText(t) =>
      /\ turns[t].pc = "done"
      /\ turns[t].out = "empty"
      /\ turns[t].posts = 0
      /\ turns[t].llm_calls = 0

\* C7: a step in which a turn returns after speech-to-text, response generation
\* or speech synthesis raised hands back the one-second silence, leaves the
\* registry as it is and removes nothing from any session; and the handler of
\* a session whose turn failed accepts the next segment.
C7_FailureCaughtAtTurnBoundary ==
  /\ [][\A t \in TurnIds :
          (turns[t].pc # "done" /\ turns'[t].pc = "done" /\ turns'[t].raised # None) =>
            /\ turns'[t].out = "silence"
            /\ active_sessions' = active_sessions
            /\ active_streams' = active_streams
            /\ \A o \in ObjIds :
                 /\ IsPrefix(objs[o].transcript, objs'[o].transcript)
                 /\ IsPrefix(objs[o].interests, objs'[o].interests)
                 /\ IsPrefix(objs[o].concepts, objs'[o].concepts)
                 /\ IsPrefix(objs[o].conversation_history, objs'[o].conversation_history)
                 /\ objs'[o].handler = objs[o].handler]_vars
  /\ [](\A t \in TurnIds :
          (turns[t].pc = "done" /\ turns[t].raised # None /\ nTurns < MaxTurns) =>
            ENABLED TurnBegin(turns[t].obj))

\* a turn that failed in speech synthesis kept what it had committed, and a
\* later turn of the same session returned audio
C7_Witness ==
  \E t1, t2 \in TurnIds :
    /\ t1 < t2
    /\ turns[t1].obj = turns[t2].obj
    /\ turns[t1].pc = "done" /\ turns[t1].raised = "tts" /\ turns[t1].out = "silence"
    /\ EntriesOf(objs[turns[t1].obj].transcript, t1, "assistant") # {}
    /\ turns[t2].pc = "done" /\ turns[t2].out = "audio"

\* C8: two turns of the same session are never both between their
\* speech-to-text step and their return.
C8_TurnsSerialized ==
  \A t1, t2 \in TurnIds :
    (t1 # t2 /\ InFlight(t1) /\ InFlight(t2)) => turns[t1].obj # turns[t2].obj

\* C9: in every transcript the entries of an earlier turn come before those of
\* a later turn, and a turn's user entry comes before its assistant entry.
C9_TranscriptChronological ==
  \A o \in ObjIds :
    LET transcript == objs[o].transcript
    IN  \A i, j \in 1..Len(transcript) :
          i < j =>
            /\ transcript[i].turn <= transcript[j].turn
            /\ transcript[i].turn = transcript[j].turn =>
                 ~(transcript[i].speaker = "assistant" /\ transcript[j].speaker = "user")

\* C10: no session ever holds two interest records with the same name.
C10_InterestNamesDistinct ==
  \A o \in ObjIds :
    \A i, j \in 1..Len(objs[o].interests) :
      objs[o].interests[i] = objs[o].interests[j] => i = j

\* a reply with the markers a, b, a has been handled, by the callback and by
\* the request, and the session holds a and b once each
C10_Witness ==
  \E t \in TurnIds :
    /\ turns[t].pc = "done"
    /\ turns[t].posts = 5
    /\ objs[turns[t].obj].interests = << <<"a">>, <<"b">> >>

\* the names of a sequence of interests
Names(interests) == {interests[k] : k \in 1..Len(interests)}

\* the names marked in the assistant messages of a history
RECURSIVE Marked(_)
Marked(history) ==
  IF history = <<>> THEN {}
  ELSE (IF Head(history).type = "ai"
        THEN Names(_extract_interest_tags(Head(history).content)) ELSE {})
       \cup Marked(Tail(history))

\* C11: when process_message has returned, the names it hands over to be
\* recorded, result["interests"], hold every non-empty name marked in the
\* response of that turn, apart from the names marked earlier in the
\* conversation, which the session may hold already.
C11_ResponseMarkersScanned ==
  gResult.status = "returned" =>
    Names(_extract_interest_tags(gResult.result.response))
      \subseteq (Names(gResult.result.interests) \cup Marked(gHist))

\* C12: the interest-detected callback is invoked only with a name the
\* session does not hold yet.
C12_CallbackOnlyForNewInterests ==
  [][\A t \in TurnIds :
       (turns[t].pc = "callback" /\ turns'[t].pc = "callback_done") =>
         Head(turns[t].interests) \notin Names(objs[turns[t].obj].interests)]_vars

\* the graph nodes that run after determine_next_stage in a round
AfterStageNode == {"generate_response", "prepare_thread_data", "END"}

\* the session's flag after the handler has recorded a result: the session is
\* the one start_interview builds, with the flag as it was before the turn
FlagAfter(flag, mode, result) ==
  Commit([InterviewSession(1, mode) EXCEPT !.prepare_thread = flag],
         1, LongText, result).prepare_thread

\* C13: within a call the thread flag is set by the stage step of the round in
\* which the mode is thread and the state holds at least one interest, is set
\* only when the mode is thread and no step of the call clears it; and
\* recording a returned result keeps a flag the session has and sets it
\* exactly when the result carries it.
C13_ThreadFlagSetAndKept ==
  /\ [](/\ gNode \in AfterStageNode =>
             (gState.should_create_thread <=>
                (gState.mode = "thread" /\ Len(gState.interests) >= ThreadInterests))
        /\ gState.should_create_thread => gState.mode = "thread"
        /\ gResult.status = "returned" =>
             /\ gResult.result.should_create_thread <=>
                  (gMode = "thread" /\ gResult.result.interests # <<>>)
             /\ \A flag \in BOOLEAN :
                  FlagAfter(flag, gMode, gResult.result) =
                    (flag \/ gResult.result.should_create_thread))
  /\ [][(gNode # "idle" /\ gState.should_create_thread) =>
          gState'.should_create_thread]_vars

\* the second call made for a thread-mode conversation has returned with the
\* flag, and recording it sets the flag of a session that did not have it
C13_Witness ==
  /\ gCalls = 2
  /\ gResult.status = "returned"
  /\ gMode = "thread"
  /\ gResult.result.interests # <<>>
  /\ gResult.result.should_create_thread
  /\ FlagAfter(FALSE, gMode, gResult.result)

\* C20: the title of a message list whose first user message m has at most
\* 100 characters is m; otherwise it is the first 97 characters of m followed
\* by "...", 100 characters in all.
C20_TitleTruncation ==
  tTitle # NoneText =>
    LET m == UserMessages(tMessages)[1].content
    IN  /\ Len(m) <= 100 => tTitle = m
        /\ Len(m) > 100 =>
             /\ Len(tTitle) = 100
             /\ \A k \in 1..97 : tTitle[k] = m[k]
             /\ \A k \in 98..100 : tTitle[k] = "."

C20_Witness ==
  /\ Len(UserMessages(tMessages)[1].content) = 150
  /\ Len(tTitle) = 100
  /\ tTitle[97] = "7"
  /\ tTitle[98] = "."

\* the session's thread flag as the hand-off finds it
Flagged(session) ==
  session.mode = "thread" /\ session.prepare_thread /\ session.interests # <<>>

ThreadRequests == {k \in 1..Len(requests) : requests[k].to = "thread"}

\* C14: every request save_session_data submits to thread creation is for a
\* session whose thread flag is set: its mode is thread and it holds at least
\* one interest.
C14_ThreadRequestOnlyWhenFlagged ==
  \A k \in ThreadRequests : Flagged(objs[requests[k].obj])

\* C16: whatever the hand-off answers, every end_interview call that found
\* its session returns "completed", and when it does the id is in neither
\* registry.
C16_HandoffNeverBlocksTeardown ==
  /\ [](\A e \in EndIds :
          ends[e].pc = "done" => ends[e].out \in {"completed", "not_found"})
  /\ [][\A e \in EndIds :
          (ends[e].pc # "done" /\ ends'[e].out = "completed") =>
            /\ active_sessions'[ends'[e].sid] = 0
            /\ ends'[e].sid \notin active_streams']_vars

\* session object o is the registry's entry for its id
Registered(o) ==
  objs[o].session_id # 0 /\ active_sessions[objs[o].session_id] = o

\* C17: a registered session leaves the registry only in the step in which an
\* end_interview call for it completes; while the hand-off of a call is in
\* flight its session is registered, and status and results queries for a
\* registered id succeed.
C17_RegisteredUntilEndCompletes ==
  /\ [][\A o \in ObjIds :
          (Registered(o) /\ ~Registered(o)') =>
            \E e \in EndIds :
              /\ ends[e].pc # "done"
              /\ ends'[e].out = "completed"
              /\ ends'[e].obj = o]_vars
  /\ [](\A e \in EndIds :
          ends[e].pc \in {"analytics", "thread"} => Registered(ends[e].obj))
  /\ [][(/\ answer' # answer
         /\ answer'.op \in {"status", "results"}
         /\ active_sessions[answer'.sid] # 0) => answer'.status = "ok"]_vars

\* C18: a status, results, ice-servers, transcript or end call for an id that
\* is not registered answers not-found and changes no session and no registry.
C18_NotFoundChangesNothing ==
  /\ [][(answer' # answer /\ ~Suspended) =>
          /\ (active_sessions[answer'.sid] = 0) <=> (answer'.status = "not_found")
          /\ answer'.status = "not_found" =>
               UNCHANGED <<objs, active_sessions, active_streams, requests>>]_vars
  /\ [][\A e \in EndIds :
          (/\ ends[e].pc = "none"
           /\ ends'[e].pc # "none"
           /\ active_sessions[ends'[e].sid] = 0) =>
            /\ ends'[e].out = "not_found"
            /\ UNCHANGED <<objs, active_sessions, active_streams, requests>>]_vars

\* a transcript update and an end call have both answered not-found while a
\* session is registered under another id
C18_Witness ==
  /\ answer.op = "transcript"
  /\ answer.status = "not_found"
  /\ \E e \in EndIds : ends[e].out = "not_found"
  /\ \E sid \in Sids : active_sessions[sid] # 0 /\ objs[active_sessions[sid]].transcript # <<>>

\* the user entries of a transcript handed to thread creation as messages
UserEntries(messages) ==
  SelectSeq(messages, LAMBDA m : Get(m, "speaker", None) = "user")

\* C19: the payload transform_interview_to_thread builds from messages that
\* hold a user entry of a transcript has the text of the first user entry as
\* its description and the title made of that text.
C19_PayloadFromFirstUserEntry ==
  \A k \in ThreadRequests :
    UserEntries(requests[k].messages) # <<>> =>
      LET first == UserEntries(requests[k].messages)[1].text
      IN  /\ requests[k].payload.description = first
          /\ requests[k].payload.title =
               generate_thread_title(<<RoleMessage("user", first)>>)

\* the labels of a list, as a set
Labels(list) == {list[k] : k \in 1..Len(list)}

KeywordDerivative == <<"d", "e", "r", "i", "v", "a", "t", "i", "v", "e">>
KeywordIntegral == <<"i", "n", "t", "e", "g", "r", "a", "l">>

\* C21: for a text that contains "derivative" and "integral", the analysis has
\* the topic Calculus and the concepts Derivatives, Integrals and Limits.
C21_CalculusTopicAndConcepts ==
  (/\ tAnalysis.done
   /\ Contains(conversation_text(tMessages), KeywordDerivative)
   /\ Contains(conversation_text(tMessages), KeywordIntegral))
  => /\ "Calculus" \in Labels(tAnalysis.topics)
     /\ {"Derivatives", "Integrals", "Limits"} \subseteq Labels(tAnalysis.concepts)

\* some subject keyword occurs in the text
SubjectKeywordOccurs(text) ==
  \E r \in 1..Len(subject_keywords) :
    \E k \in 1..Len(subject_keywords[r].keywords) :
      Contains(text, subject_keywords[r].keywords[k])

NoRepeats(list) == \A i, j \in 1..Len(list) : list[i] = list[j] => i = j

\* C22: the subjects are exactly [General Learning] if and only if no subject
\* keyword occurs in the text, General Learning is absent when a subject
\* matches, topics and concepts are empty when nothing matches, and no output
\* repeats a label.
C22_DefaultSubjectAndNoDuplicates ==
  tAnalysis.done =>
    LET text == conversation_text(tMessages)
    IN  /\ (tAnalysis.subjects = <<GeneralLearning>>) <=> ~SubjectKeywordOccurs(text)
        /\ SubjectKeywordOccurs(text) => GeneralLearning \notin Labels(tAnalysis.subjects)
        /\ Matched(topic_keywords, text) = <<>> => tAnalysis.topics = <<>>
        /\ Extended(concept_mapping, text) = <<>> => tAnalysis.concepts = <<>>
        /\ NoRepeats(tAnalysis.subjects)
        /\ NoRepeats(tAnalysis.topics)
        /\ NoRepeats(tAnalysis.concepts)

\* two messages matched two subjects, and a message without a subject keyword
\* got the default
C22_Witness ==
  /\ tAnalysis.done
  /\ Len(tMessages) = 2
  /\ Labels(tAnalysis.subjects) = {"Mathematics", "Art"}
  /\ Len(tAnalysis.concepts) = 3

\* the verdict is about the pair as it was issued by generate_credentials
GenuinePair ==
  /\ cVerdict.asked
  /\ cIssued.path = "generate"
  /\ cVerdict.username = cIssued.username
  /\ cVerdict.password = cIssued.credential

\* the ticks of the clock at now + ttl, now being the time of issuance
ExpiryTicks(issue) ==
  issue.at + TicksPerSecond * (IF issue.ttl = NoTtl THEN default_ttl ELSE issue.ttl[1])

\* C23: validate applied to an issued username and credential is true at every
\* time from issuance up to now + ttl and false at every time past now + ttl.
C23_ValidUntilExpiry ==
  GenuinePair =>
    /\ cVerdict.at <= ExpiryTicks(cIssued) => cVerdict.result = TRUE
    /\ cVerdict.at > ExpiryTicks(cIssued) => cVerdict.result = FALSE

\* C24: validate is true only for the credential recomputed from the presented
\* username and the secret, and a pair that differs from the issued pair in
\* its credential alone or in its username alone is refused.
C24_TamperedPairRefused ==
  (cVerdict.asked /\ cIssued.path \in {"generate", "session"}) =>
    /\ cVerdict.result = TRUE =>
         cVerdict.password = Base64(Hmac(cEnv.generator, cVerdict.username))
    /\ (/\ cVerdict.username = cIssued.username
        /\ cVerdict.password # cIssued.credential) => cVerdict.result = FALSE
    /\ (/\ cVerdict.username # cIssued.username
        /\ cVerdict.password = cIssued.credential) => cVerdict.result = FALSE

\* an unexpired username with its expiry raised by one was presented with the
\* issued credential and refused, the issued pair itself being still valid
C24_Witness ==
  /\ cVerdict.asked
  /\ cIssued.path = "generate"
  /\ cIssued.ttl = Ttl(2)
  /\ cVerdict.at > cIssued.at
  /\ cVerdict.username = Str(cIssued.seconds + 3) \o <<":">> \o cIssued.identity
  /\ cVerdict.password = cIssued.credential
  /\ cVerdict.result = FALSE
  /\ validate_credentials(cEnv.generator, cIssued.username, cIssued.credential)

\* C25: validate returns false, whatever the credential, for a username with no
\* ':' , with a prefix before the first ':' that is not an integer, or with an
\* expiry earlier than now.
C25_ValidateFailsClosed ==
  cVerdict.asked =>
    LET colon == FirstColon(cVerdict.username)
        prefix == SubSeq(cVerdict.username, 1, colon - 1)
    IN  (\/ colon = 0
         \/ ~IsInt(prefix)
         \/ Int_(prefix) * TicksPerSecond < cVerdict.at) => cVerdict.result = FALSE

\* an expired username was presented with the credential that matches it
C25_Witness ==
  /\ cVerdict.asked
  /\ cIssued.path = "generate"
  /\ cIssued.ttl = Ttl(1)
  /\ cVerdict.username = cIssued.username
  /\ cVerdict.password = Base64(Hmac(cEnv.generator, cVerdict.username))
  /\ (cIssued.seconds + 1) * TicksPerSecond < cVerdict.at
  /\ cVerdict.result = FALSE

\* C26: generate_credentials puts expiry = now + ttl in the username for every
\* ttl it is given, 0 included, and now + 24h only when it is given none; the
\* username is "<expiry>:<identity>".
C26_ExpiryIsNowPlusTtl ==
  cIssued.path = "generate" =>
    LET expiry == cIssued.seconds + (IF cIssued.ttl = NoTtl THEN default_ttl ELSE cIssued.ttl[1])
    IN  cIssued.username = Str(expiry) \o <<":">> \o cIssued.identity

\* C27: a credential issued while the configured secret is missing is issued
\* only after the use of the fallback secret has been flagged by a warning.
C27_FallbackSecretFlagged ==
  (cIssued.path # "none" /\ cIssued.fallback) => cIssued.flagged

\* C28: the conversation generate_response submits is every user and assistant
\* message of the state in order, the conversation history of the call and the
\* current user utterance first: only system-level priming is left out.
C28_FullConversationSubmitted ==
  gNode = "generate_response" =>
    /\ LlmInput(gState) = SelectSeq(gState.messages, IsChat)
    /\ IsPrefix(Append(gHist, HumanMessage(LongText)), LlmInput(gState))

\* C30: after the thread-creation attempt of save_session_data the session
\* records one outcome: the
\* created marker with a thread identifier, or the error; the marker is never
\* set without an identifier or together with an error.
C30_OneThreadOutcomeRecorded ==
  \A o \in ObjIds :
    /\ objs[o].thread_created =>
         (objs[o].thread_id # None /\ objs[o].thread_creation_error = None)
    /\ (\E e \in EndIds : ends[e].obj = o /\ ends[e].thread # "none") =>
         (objs[o].thread_created \/ objs[o].thread_creation_error # None)

\* the transcript a hand-off request carries
HandedTranscript(request) ==
  IF request.to = "thread" THEN request.messages ELSE request.payload

\* turn t had begun when some hand-off request of its session was made
BegunBeforeHandoff(t) ==
  \E k \in 1..Len(requests) :
    /\ requests[k].obj = turns[t].obj
    /\ EntriesOf(HandedTranscript(requests[k]), t, "user") # {}

\* what a session holds of its own, the state of its handler left out:
\* transcript, interests and metadata
SessionData(session) ==
  [session EXCEPT !.handler = FALSE, !.conversation_history = <<>>]

\* a step of a turn that was handed off in flight, taken after end_interview
\* has completed, leaves the transcript, the interests and the metadata of
\* the session as they are
C29_NothingAfterEnd ==
  [][\A t \in TurnIds :
       (/\ InFlight(t)
        /\ turns'[t] # turns[t]
        /\ BegunBeforeHandoff(t)
        /\ \E e \in EndIds : ends[e].out = "completed" /\ ends[e].obj = turns[t].obj)
       => SessionData(objs'[turns[t].obj]) = SessionData(objs[turns[t].obj])]_vars

\* C29: a turn that was in flight when its session was handed off changes
\* nothing of the session once end_interview has completed, and a hand-off
\* request carries no entry of a turn that has not completed.
C29_EndedTurnCommitsNothing ==
  /\ C29_NothingAfterEnd
  /\ [][Len(requests') > Len(requests) =>
          LET handed == HandedTranscript(requests'[Len(requests')])
          IN  \A k \in 1..Len(handed) :
                handed[k].turn # 0 => turns[handed[k].turn].pc = "done"]_vars

\* the secret an ice-servers endpoint computed the issued credential with
EndpointSecret ==
  IF cIssued.path = "rest" THEN Getenv(cEnv.TURN_SECRET, RestDefaultSecret)
  ELSE cEnv.generator

\* C31: the credential an ice-servers endpoint returns, in either service
\* variant, is base64(HMAC-SHA1(secret, username)) over the username it is
\* returned with, so that validate accepts the pair before its expiry.
C31_EndpointCredentialIsBase64Hmac ==
  cIssued.path \in {"session", "rest"} =>
    /\ cIssued.credential = Base64(Hmac(EndpointSecret, cIssued.username))
    /\ validate_credentials(EndpointSecret, cIssued.username, cIssued.credential)

\* the names of a list in order of first occurrence, each once, without the
\* names of the set known
RECURSIVE NewDistinct(_, _)
NewDistinct(names, known) ==
  IF names = <<>> THEN <<>>
  ELSE IF Head(names) \in known THEN NewDistinct(Tail(names), known)
  ELSE <<Head(names)>> \o NewDistinct(Tail(names), known \cup {Head(names)})

\* C32: the names the interest tagger returns for a response are the trimmed,
\* non-empty marker names in order of first occurrence, each distinct name
\* once and none that the session's interest set already holds.
C32_TaggerReturnsNewDistinctNames ==
  [][\A t \in TurnIds :
       (turns[t].pc = "llm" /\ turns'[t].pc = "callback") =>
         turns'[t].interests =
           NewDistinct(SelectNonEmpty(StripAll(FindAll(turns'[t].response, 1))),
                       Names(objs[turns[t].obj].interests))]_vars

\* the thread requests made for session object o
ThreadRequestsFor(o) == {k \in 1..Len(requests) : requests[k].to = "thread" /\ requests[k].obj = o}

C34_TurnGraphReachesEnd ==
  gNode = "raised" => gSteps < RecursionLimit

\* the requests of one kind made for session object o
RequestsFor(o, to) == {k \in 1..Len(requests) : requests[k].to = to /\ requests[k].obj = o}

\* C35: however end_interview calls for one session id interleave, the
\* session is handed off at most once (one analytics submission, one thread
\* request) and every call either completes or answers not-found.
C35_ConcurrentEndsHandOffOnce ==
  /\ \A o \in ObjIds :
       /\ Cardinality(RequestsFor(o, "analytics")) <= 1
       /\ Cardinality(RequestsFor(o, "thread")) <= 1
  /\ \A e \in EndIds :
       ends[e].pc = "done" => ends[e].out \in {"completed", "not_found"}

\* C36: start_interview never replaces a registered session: the entry of a
\* registered id changes only by being removed, so that two sessions alive at
\* the same time, two started for the same user at the same clock reading
\* included, have distinct ids and distinct registry entries.
C36_StartNeverReplaces ==
  [][\A sid \in Sids :
       active_sessions[sid] # 0 => active_sessions'[sid] \in {active_sessions[sid], 0}]_vars

\* C37: when start_interview fails, because building or mounting the stream
\* raised and the caller got an error, no entry of that call is left in the
\* session registry or in the stream registry.
C37_FailedStartLeavesNothing ==
  [][\A o \in ObjIds :
       (objs[o].start = "none" /\ objs'[o].start = "failed") =>
         /\ active_sessions'[objs'[o].session_id] # o
         /\ (objs'[o].session_id \in active_streams' =>
               objs'[o].session_id \in active_streams)]_vars

\* the step is a step of a turn, or of an end call, of session object a
StepOf(a) ==
  \/ \E t \in TurnIds : turns'[t] # turns[t] /\ turns'[t].obj = a
  \/ \E e \in EndIds : ends'[e] # ends[e] /\ ends'[e].obj = a

\* C38: a step of a turn or of an end call of one session leaves every other
\* session as it is: its transcript, interests, metadata and conversation
\* history do not change and it keeps its registry entry.
C38_SessionsIsolated ==
  [][\A a \in ObjIds :
       StepOf(a) =>
         \A b \in ObjIds \ {a} :
           /\ objs'[b] = objs[b]
           /\ Registered(b) => Registered(b)']_vars

\* the texts of the user messages of a conversation history, and of the user
\* entries of a transcript, in order
HumanTexts(history) ==
  LET human == SelectSeq(history, LAMBDA m : m.type = "human")
  IN  [k \in 1..Len(human) |-> human[k].content]

UserEntryTexts(transcript) ==
  LET user == SelectSeq(transcript, LAMBDA m : m.speaker = "user")
  IN  [k \in 1..Len(user) |-> user[k].text]

\* C39: between the turns of a session, failed turns included, the user
\* utterances in the handler's conversation history are the texts of the user
\* entries of the session's transcript, in the same order.
C39_HistoryMatchesTranscript ==
  \A o \in ObjIds :
    (objs[o].handler /\ \A t \in TurnIds : turns[t].obj = o => ~InFlight(t)) =>
      HumanTexts(objs[o].conversation_history) = UserEntryTexts(objs[o].transcript)

====
